---- MODULE Spec2Model ----
(***************************************************************************)
(* CarbonWise insights engine: the rule engine, the AI adapter and the      *)
(* getInsights orchestrator with its insights-table cache.                  *)
(*                                                                          *)
(* Units.  Quantities the code keeps as JavaScript numbers are kept here as *)
(* exact integers:                                                          *)
(*   emissions          grams (1/1000 kg)                                   *)
(*   savings            1/100000 kg (grams times a percentage)              *)
(*   potentialSavings   tenths of a kg (Math.round(savings * 10) / 10)      *)
(*   dates              day numbers; now is in hours, Today == now \div 24  *)
(***************************************************************************)
EXTENDS Integers, Sequences, FiniteSets, Bags, TLC

VARIABLES
    activities,     \* the activities table: sequence of rows in insertion order
    profiles,       \* the calculator_profiles table: user id -> row
    cache,          \* the insights table: bag of rows (the id column is never read)
    now,            \* wall clock, in hours
    pc,             \* request slot -> position inside getInsights
    req,            \* request slot -> the running call's arguments and counters
    result,         \* request slot -> what getInsights returned (or raised)
    out,            \* last result of a direct call of a pure engine function
    users,          \* the users table: user id -> row
    goals,          \* the goals table: sequence of rows in insertion order
    user_badges,    \* the user_badges table: set of <<user id, badge id>>
    sqlite_sequence \* AUTOINCREMENT: table name -> largest id ever given out

\* the tables of the accounts, goals and gamification routes
accounts == <<users, goals, user_badges, sqlite_sequence>>

vars == <<activities, profiles, cache, now, pc, req, result, out, accounts>>

-----------------------------------------------------------------------------
(* Bounds of the model *)

MaxClock == 7        \* the clock stops advancing at this many hours
MaxDismiss == 1      \* dismiss requests in one behaviour
MaxCarRows == 9      \* most car trips in one activity history

Users == {1, 2}
Slots == {1, 2}

\* the user whose getInsights requests are modelled; the other user owns rows only
RequestUsers == {1}

-----------------------------------------------------------------------------
(* Arithmetic helpers *)

\* Math.round(n / d) for d > 0: floor(n/d + 1/2)
RoundDiv(n, d) == (2 * n + d) \div (2 * d)

RECURSIVE SumEmissions(_)
SumEmissions(rows) ==
    IF rows = <<>> THEN 0 ELSE Head(rows).emissions + SumEmissions(Tail(rows))

RECURSIVE SumValues(_)
SumValues(rows) ==
    IF rows = <<>> THEN 0 ELSE Head(rows).value + SumValues(Tail(rows))

Today == now \div 24

-----------------------------------------------------------------------------
(* Activity descriptions.  String.includes on the lower-cased description   *)
(* is tabulated for the descriptions the model uses.                        *)

Descriptions ==
    {"Drove car to work", "Bus ride", "Flight to Oslo", "Bike ride",
     "electricity", "heating", "daily_diet", "household_waste"}

DescIncludes(desc, kw) ==
    CASE desc = "Drove car to work" -> kw \in {"car", "drove"}
      [] desc = "Bus ride"          -> kw \in {"bus"}
      [] desc = "Flight to Oslo"    -> kw \in {"flight"}
      [] desc = "Bike ride"         -> kw \in {"bike"}
      [] OTHER                      -> FALSE

\* activities.js detectActivityType
detectActivityType(category, description) ==
    LET Has(kw) == DescIncludes(description, kw)
    IN  IF description \in {"electricity", "driving", "heating", "daily_diet", "household_waste"}
        THEN description
        ELSE IF category = "transport" /\ (Has("bike") \/ Has("cycling") \/ Has("biking"))
        THEN "bike"
        ELSE IF category = "transport" /\ (Has("walk") \/ Has("walking")) THEN "walk"
        ELSE IF category = "transport" /\ Has("bus") THEN "bus"
        ELSE IF category = "transport" /\ (Has("train") \/ Has("rail")) THEN "train"
        ELSE IF category = "transport"
                /\ (Has("metro") \/ Has("subway") \/ Has("underground")) THEN "metro"
        ELSE IF category = "transport"
                /\ (Has("carpool") \/ Has("shared ride") \/ Has("ride share")) THEN "carpool"
        ELSE IF category = "transport"
                /\ (Has("car") \/ Has("drive") \/ Has("driving")) THEN "car"
        ELSE IF category \in {"diet", "food"} /\ Has("vegan") THEN "vegan"
        ELSE IF category \in {"diet", "food"} /\ (Has("vegetarian") \/ Has("veggie"))
        THEN "vegetarian"
        ELSE IF category \in {"diet", "food"}
                /\ (Has("low meat") \/ Has("low-meat") \/ Has("less meat")) THEN "low-meat"
        ELSE IF category \in {"electricity", "energy"} /\ Has("solar") THEN "solar"
        ELSE IF category \in {"electricity", "energy"} /\ Has("wind") THEN "wind"
        ELSE IF category \in {"electricity", "energy"}
                /\ (Has("renewable") \/ Has("green energy")) THEN "renewable"
        ELSE IF category \in {"electricity", "energy"} /\ Has("nuclear") THEN "nuclear"
        ELSE description

\* activities.js EMISSION_FACTORS, in grams per unit; 0 - 1 stands for "no such key"
NoKey == 0 - 1

CarFactor(fuelType) ==
    CASE fuelType = "petrol" -> 210 [] fuelType = "diesel" -> 180
      [] fuelType = "hybrid" -> 120 [] fuelType = "electric" -> 50
      [] OTHER -> NoKey

TransportFactor(calcType) ==
    CASE calcType = "bus" -> 89 [] calcType = "train" -> 41
      [] calcType = "plane" -> 255 [] calcType = "bike" -> 0
      [] calcType = "walk" -> 0 [] calcType = "metro" -> 35
      [] calcType = "carpool" -> 70
      [] OTHER -> NoKey

ElectricityFactor(calcType) ==
    CASE calcType = "mixed" -> 500 [] calcType = "coal" -> 900
      [] calcType = "natural-gas" -> 400 [] calcType = "nuclear" -> 20
      [] calcType = "renewable" -> 50
      [] OTHER -> NoKey

HeatingFactor(calcType) ==
    CASE calcType = "natural-gas" -> 2000 [] calcType = "oil" -> 2500
      [] calcType = "electric" -> 1500 [] calcType = "wood" -> 300
      [] calcType = "heat-pump" -> 500
      [] OTHER -> NoKey

DietFactor(calcType) ==
    CASE calcType = "meat-heavy" -> 7200 [] calcType = "average" -> 5600
      [] calcType = "low-meat" -> 4200 [] calcType = "vegetarian" -> 3800
      [] calcType = "vegan" -> 2900
      [] OTHER -> NoKey

\* JavaScript's  table[key] || dflt : the default also replaces a factor of 0
OrDefault(factor, dflt) == IF factor = NoKey \/ factor = 0 THEN dflt ELSE factor

\* activities.js POST /: emissions in grams for an integer value
computeEmissions(category, calcType, fuelType, value) ==
    CASE category = "transport" ->
            IF calcType = "car"
            THEN value * OrDefault(CarFactor(fuelType), 210)
            ELSE IF TransportFactor(calcType) # NoKey
                 THEN value * TransportFactor(calcType)
                 ELSE value * 210
      [] category \in {"electricity", "energy"} ->
            value * OrDefault(ElectricityFactor(calcType), 500)
      [] category = "heating" -> value * OrDefault(HeatingFactor(calcType), 2000)
      [] category \in {"diet", "food"} -> value * OrDefault(DietFactor(calcType), 1800)
      [] category = "waste" -> value * 500
      [] OTHER -> value * 500

\* The row POST /api/activities stores when the request names no subType or fuelType
NewActivity(id, userId, category, description, value, date) ==
    [id |-> id, user_id |-> userId, category |-> category,
     description |-> description, value |-> value,
     emissions |-> computeEmissions(category, detectActivityType(category, description),
                                    "none", value),
     date |-> date]

-----------------------------------------------------------------------------
(* Calculator profiles *)

DefaultProfile ==
    [present |-> TRUE, energy_source |-> "mixed", diet_type |-> "average",
     local_food |-> 0, low_food_waste |-> 0, compost |-> 0,
     recycle_paper |-> 1, recycle_plastic |-> 1, recycle_glass |-> 1,
     recycle_metal |-> 0, single_use |-> "medium"]

NoProfile == [DefaultProfile EXCEPT !.present = FALSE]

GreenProfile ==
    [present |-> TRUE, energy_source |-> "renewable", diet_type |-> "vegan",
     local_food |-> 1, low_food_waste |-> 1, compost |-> 1,
     recycle_paper |-> 1, recycle_plastic |-> 1, recycle_glass |-> 1,
     recycle_metal |-> 1, single_use |-> "low"]

-----------------------------------------------------------------------------
(* insights-engine.js analyzeUserData *)

normalizeCategory(cat) ==
    IF cat \in {"energy", "electricity"} THEN "electricity"
    ELSE IF cat \in {"food", "diet"} THEN "diet"
    ELSE cat

\* SELECT * FROM activities WHERE user_id = ? AND date >= monthAgo
WindowActivitiesIn(table, userId) ==
    LET InWindow(a) == a.user_id = userId /\ a.date >= Today - 30
    IN  SelectSeq(table, InWindow)

WindowActivities(userId) == WindowActivitiesIn(activities, userId)

IsCar(a) == DescIncludes(a.description, "car") \/ DescIncludes(a.description, "drove")

IsTransport(a) == a.category = "transport"

IsTransit(a) ==
    \/ DescIncludes(a.description, "bus")
    \/ DescIncludes(a.description, "train")
    \/ DescIncludes(a.description, "metro")

IsShortCar(a) == IsCar(a) /\ a.value < 5

IsFlight(a) == DescIncludes(a.description, "flight") \/ DescIncludes(a.description, "plane")

IsElectricity(a) == a.category = "electricity" \/ a.category = "energy"

IsHeating(a) == a.category = "heating"

IsDiet(a) == a.category = "diet" \/ a.category = "food"

IsWaste(a) == a.category = "waste"

\* profile?.column || false
Flag(profile, column) == profile.present /\ column # 0

\* the data object, from the window's activities, the profile row and the
\* per-category filters of the activities
UserData(acts, profile, transport, electricity, heating, diet, waste) ==
    [categoriesWithData |-> {normalizeCategory(acts[i].category) : i \in DOMAIN acts},
         activityCount |-> Len(acts),
         carTrips |-> Len(SelectSeq(transport, IsCar)),
         publicTransitTrips |-> Len(SelectSeq(transport, IsTransit)),
         shortCarTrips |-> Len(SelectSeq(transport, IsShortCar)),
         soloCarTrips |-> Len(SelectSeq(transport, IsCar)),
         carEmissions |-> SumEmissions(SelectSeq(transport, IsCar)),
         flightEmissions |-> SumEmissions(SelectSeq(transport, IsFlight)),
         transportEmissions |-> SumEmissions(transport),
         hasTransportData |-> Len(transport) > 0,
         electricityEmissions |-> SumEmissions(electricity),
         electricityUsage |-> SumValues(electricity),
         energySource |-> IF profile.present THEN profile.energy_source ELSE "null",
         hasElectricityData |-> Len(electricity) > 0,
         heatingEmissions |-> SumEmissions(heating),
         hasHeatingData |-> Len(heating) > 0,
         dietEmissions |-> SumEmissions(diet),
         dietType |-> IF profile.present THEN profile.diet_type ELSE "null",
         localFood |-> Flag(profile, profile.local_food),
         lowFoodWaste |-> Flag(profile, profile.low_food_waste),
         hasDietData |-> Len(diet) > 0,
         wasteEmissions |-> SumEmissions(waste),
         composts |-> Flag(profile, profile.compost),
         recyclingScore |-> (IF Flag(profile, profile.recycle_paper) THEN 1 ELSE 0)
                          + (IF Flag(profile, profile.recycle_plastic) THEN 1 ELSE 0)
                          + (IF Flag(profile, profile.recycle_glass) THEN 1 ELSE 0)
                          + (IF Flag(profile, profile.recycle_metal) THEN 1 ELSE 0),
         singleUseLevel |-> IF profile.present THEN profile.single_use ELSE "medium",
         hasWasteData |-> Len(waste) > 0,
         totalEmissions |-> SumEmissions(acts),
         hasAnyData |-> Len(acts) > 0]

\* analyzeUserData reading the activities table it is given
analyzeUserDataIn(table, userId) ==
    UserData(WindowActivitiesIn(table, userId), profiles[userId],
             SelectSeq(WindowActivitiesIn(table, userId), IsTransport),
             SelectSeq(WindowActivitiesIn(table, userId), IsElectricity),
             SelectSeq(WindowActivitiesIn(table, userId), IsHeating),
             SelectSeq(WindowActivitiesIn(table, userId), IsDiet),
             SelectSeq(WindowActivitiesIn(table, userId), IsWaste))

analyzeUserData(userId) == analyzeUserDataIn(activities, userId)

-----------------------------------------------------------------------------
(* insights-engine.js INSIGHT_TEMPLATES: category -> rule ids in declared   *)
(* order; condition, calculateSavings, priority and category by rule id.    *)

INSIGHT_TEMPLATES ==
    [transport   |-> <<"switch-to-public-transit", "try-cycling", "carpooling",
                       "reduce-flights">>,
     electricity |-> <<"switch-renewable", "reduce-standby", "led-lighting",
                       "smart-thermostat">>,
     diet        |-> <<"meatless-days", "local-seasonal", "reduce-food-waste",
                       "plant-protein">>,
     waste       |-> <<"start-composting", "improve-recycling", "reduce-single-use">>]

\* Object.keys(INSIGHT_TEMPLATES), in insertion order
TemplateCategories == <<"transport", "electricity", "diet", "waste">>

TemplateCondition(id, data) ==
    CASE id = "switch-to-public-transit" -> data.carTrips > 5 /\ data.publicTransitTrips < 2
      [] id = "try-cycling"       -> data.shortCarTrips > 3
      [] id = "carpooling"        -> data.soloCarTrips > 8
      [] id = "reduce-flights"    -> data.flightEmissions > 100000
      [] id = "switch-renewable"  -> data.energySource # "renewable"
                                     /\ data.electricityEmissions > 20000
      [] id = "reduce-standby"    -> data.electricityUsage > 300
      [] id = "led-lighting"      -> data.electricityUsage > 250
      [] id = "smart-thermostat"  -> data.heatingEmissions > 30000
      [] id = "meatless-days"     -> data.dietType = "meat-heavy" \/ data.dietType = "average"
      [] id = "local-seasonal"    -> ~data.localFood
      [] id = "reduce-food-waste" -> ~data.lowFoodWaste
      [] id = "plant-protein"     -> data.dietType # "vegetarian" /\ data.dietType # "vegan"
      [] id = "start-composting"  -> ~data.composts /\ data.wasteEmissions > 5000
      [] id = "improve-recycling" -> data.recyclingScore < 4
      [] id = "reduce-single-use" -> data.singleUseLevel = "high"
                                     \/ data.singleUseLevel = "medium"

\* JavaScript's  x || dflt  on a number: 0 is replaced by the default (in grams)
OrElse(x, dflt) == IF x = 0 THEN dflt ELSE x

\* calculateSavings, in 1/100000 kg: grams times the percentage
TemplateSavings(id, data) ==
    CASE id = "switch-to-public-transit" -> data.carEmissions * 40
      [] id = "try-cycling"       -> data.shortCarTrips * 250000
      [] id = "carpooling"        -> data.carEmissions * 30
      [] id = "reduce-flights"    -> data.flightEmissions * 50
      [] id = "switch-renewable"  -> data.electricityEmissions * 85
      [] id = "reduce-standby"    -> data.electricityEmissions * 10
      [] id = "led-lighting"      -> data.electricityEmissions * 5
      [] id = "smart-thermostat"  -> data.heatingEmissions * 12
      [] id = "meatless-days"     -> OrElse(data.dietEmissions, 40000) * 15
      [] id = "local-seasonal"    -> OrElse(data.dietEmissions, 30000) * 12
      [] id = "reduce-food-waste" -> OrElse(data.dietEmissions, 30000) * 20
      [] id = "plant-protein"     -> OrElse(data.dietEmissions, 35000) * 20
      [] id = "start-composting"  -> OrElse(data.wasteEmissions, 10000) * 30
      [] id = "improve-recycling" -> OrElse(data.wasteEmissions, 8000) * 10
      [] id = "reduce-single-use" -> OrElse(data.wasteEmissions, 8000) * 15

TemplatePriority(id) ==
    CASE id = "switch-to-public-transit" -> 9 [] id = "try-cycling" -> 8
      [] id = "carpooling" -> 7 [] id = "reduce-flights" -> 10
      [] id = "switch-renewable" -> 9 [] id = "reduce-standby" -> 6
      [] id = "led-lighting" -> 5 [] id = "smart-thermostat" -> 7
      [] id = "meatless-days" -> 8 [] id = "local-seasonal" -> 6
      [] id = "reduce-food-waste" -> 7 [] id = "plant-protein" -> 7
      [] id = "start-composting" -> 7 [] id = "improve-recycling" -> 6
      [] id = "reduce-single-use" -> 6

TemplateCategory(id) ==
    CASE id \in {"switch-to-public-transit", "try-cycling", "carpooling", "reduce-flights"}
            -> "transport"
      [] id \in {"switch-renewable", "reduce-standby", "led-lighting", "smart-thermostat"}
            -> "electricity"
      [] id \in {"meatless-days", "local-seasonal", "reduce-food-waste", "plant-protein"}
            -> "diet"
      [] id \in {"start-composting", "improve-recycling", "reduce-single-use"} -> "waste"

-----------------------------------------------------------------------------
(* insights-engine.js generateInsights *)

OnboardingInsights ==
    <<[id |-> "get-started-transport", category |-> "transport",
       potentialSavings |-> 0, priority |-> 10],
      [id |-> "get-started-electricity", category |-> "electricity",
       potentialSavings |-> 0, priority |-> 9],
      [id |-> "get-started-diet", category |-> "diet",
       potentialSavings |-> 0, priority |-> 8]>>

\* categoryDataMap[category]
categoryDataMapBroken(category, userData) == TRUE

categoryDataMap(category, userData) ==
    CASE category = "transport"   -> userData.hasTransportData
      [] category = "electricity" -> userData.hasElectricityData \/ userData.hasHeatingData
      [] category = "diet"        -> userData.hasDietData
      [] category = "waste"       -> userData.hasWasteData

\* if (categoryInsightAdded) break;
StopAfterFirstNever(categoryInsightAdded) == FALSE

StopAfterFirst(categoryInsightAdded) == categoryInsightAdded

\* if (template.condition(userData)) { ... if (savings > 0) push }
TemplateFiresIgnoringSavings(id, userData) == TemplateCondition(id, userData)

TemplateFires(id, userData) ==
    TemplateCondition(id, userData) /\ TemplateSavings(id, userData) > 0

MakeInsight(id, userData) ==
    [id |-> id, category |-> TemplateCategory(id),
     potentialSavings |-> RoundDiv(TemplateSavings(id, userData), 10000),
     priority |-> TemplatePriority(id)]

\* the inner loop over INSIGHT_TEMPLATES[category], from index i on
RECURSIVE CategoryLoop(_, _, _, _)
CategoryLoop(templates, i, categoryInsightAdded, userData) ==
    IF i > Len(templates) \/ StopAfterFirst(categoryInsightAdded) THEN <<>>
    ELSE IF TemplateFires(templates[i], userData)
         THEN <<MakeInsight(templates[i], userData)>>
              \o CategoryLoop(templates, i + 1, TRUE, userData)
         ELSE CategoryLoop(templates, i + 1, categoryInsightAdded, userData)

\* the outer loop over Object.keys(INSIGHT_TEMPLATES), from index k on
RECURSIVE TemplateLoop(_, _)
TemplateLoop(k, userData) ==
    IF k > Len(TemplateCategories) THEN <<>>
    ELSE (IF categoryDataMap(TemplateCategories[k], userData)
          THEN CategoryLoop(INSIGHT_TEMPLATES[TemplateCategories[k]], 1, FALSE, userData)
          ELSE <<>>)
         \o TemplateLoop(k + 1, userData)

\* the comparator of insights.sort: negative when a sorts before b
InsightComparePriorityOnly(a, b) == b.priority - a.priority

InsightCompare(a, b) ==
    IF b.priority # a.priority THEN b.priority - a.priority
    ELSE b.potentialSavings - a.potentialSavings

\* Array.prototype.sort (stable) with InsightCompare
RECURSIVE InsertInsight(_, _)
InsertInsight(sorted, x) ==
    IF sorted = <<>> THEN <<x>>
    ELSE IF InsightCompare(Head(sorted), x) <= 0
         THEN <<Head(sorted)>> \o InsertInsight(Tail(sorted), x)
         ELSE <<x>> \o sorted

RECURSIVE SortInsights(_)
SortInsights(list) ==
    IF list = <<>> THEN <<>>
    ELSE InsertInsight(SortInsights(SubSeq(list, 1, Len(list) - 1)), list[Len(list)])

\* generateInsights once userData is known
InsightsForRulesOnly(userData) == SortInsights(TemplateLoop(1, userData))

InsightsFor(userData) ==
    IF ~userData.hasAnyData THEN OnboardingInsights
    ELSE SortInsights(TemplateLoop(1, userData))

generateInsights(userId) == InsightsFor(analyzeUserData(userId))

-----------------------------------------------------------------------------
(* insights-engine.js identifyTrends *)

TrendCategories == <<"transport", "electricity", "heating", "diet", "waste">>

\* Number.prototype.toFixed(1) of grams / 1000, in tenths of a kg
ToFixed1(g) == IF g >= 0 THEN (g + 50) \div 100 ELSE 0 - ((50 - g) \div 100)

Abs(n) == IF n < 0 THEN 0 - n ELSE n

\* SUM(emissions) WHERE user_id = ? AND category = ? AND date >= weekAgo
ThisWeekTotalIn(table, userId, category) ==
    LET Match(a) == a.user_id = userId /\ a.category = category /\ a.date >= Today - 7
    IN  SumEmissions(SelectSeq(table, Match))

ThisWeekTotal(userId, category) == ThisWeekTotalIn(activities, userId, category)

\* SUM(emissions) WHERE ... AND date >= twoWeeksAgo AND date < weekAgo
LastWeekTotalIn(table, userId, category) ==
    LET Match(a) == /\ a.user_id = userId /\ a.category = category
                    /\ a.date >= Today - 14 /\ a.date < Today - 7
    IN  SumEmissions(SelectSeq(table, Match))

LastWeekTotal(userId, category) == LastWeekTotalIn(activities, userId, category)

TrendTagStrict(changePercent) ==
    IF changePercent < 0 - 10 THEN "positive"
    ELSE IF changePercent > 10 THEN "negative"
    ELSE "neutral"

TrendTag(changePercent) ==
    IF changePercent <= 0 - 10 THEN "positive"
    ELSE IF changePercent >= 10 THEN "negative"
    ELSE "neutral"

\* if (Math.abs(changePercent) >= 5) trends.push({...})
TrendRecord(category, thisWeek, lastWeek, changePercent) ==
    IF Abs(changePercent) >= 5
    THEN <<[category |-> category, changePercent |-> changePercent,
            trend |-> TrendTag(changePercent),
            thisWeek |-> ToFixed1(thisWeek), lastWeek |-> ToFixed1(lastWeek)]>>
    ELSE <<>>

\* if (lastWeek.total > 0) { changePercent = Math.round(...) ... }
CategoryTrendUnguarded(category, thisWeek, lastWeek) ==
    TrendRecord(category, thisWeek, lastWeek,
                IF lastWeek # 0 THEN RoundDiv((thisWeek - lastWeek) * 100, Abs(lastWeek))
                ELSE IF thisWeek > 0 THEN 100 ELSE 0)

CategoryTrend(category, thisWeek, lastWeek) ==
    IF lastWeek > 0
    THEN TrendRecord(category, thisWeek, lastWeek,
                     RoundDiv((thisWeek - lastWeek) * 100, lastWeek))
    ELSE <<>>

\* the loop over categories, from index k on, reading the table it is given
RECURSIVE TrendLoopIn(_, _, _)
TrendLoopIn(table, userId, k) ==
    IF k > Len(TrendCategories) THEN <<>>
    ELSE CategoryTrend(TrendCategories[k],
                       ThisWeekTotalIn(table, userId, TrendCategories[k]),
                       LastWeekTotalIn(table, userId, TrendCategories[k]))
         \o TrendLoopIn(table, userId, k + 1)

TrendLoop(userId, k) == TrendLoopIn(activities, userId, k)

\* trends.sort((a, b) => Math.abs(b.changePercent) - Math.abs(a.changePercent)), stable
RECURSIVE InsertTrend(_, _)
InsertTrend(sorted, x) ==
    IF sorted = <<>> THEN <<x>>
    ELSE IF Abs(x.changePercent) - Abs(Head(sorted).changePercent) <= 0
         THEN <<Head(sorted)>> \o InsertTrend(Tail(sorted), x)
         ELSE <<x>> \o sorted

RECURSIVE SortTrends(_)
SortTrends(list) ==
    IF list = <<>> THEN <<>>
    ELSE InsertTrend(SortTrends(SubSeq(list, 1, Len(list) - 1)), list[Len(list)])

identifyTrendsIn(table, userId) == SortTrends(TrendLoopIn(table, userId, 1))

identifyTrends(userId) == identifyTrendsIn(activities, userId)

-----------------------------------------------------------------------------
(* insights-engine.js generateAISummary.  The narrative is kept as the      *)
(* record of the values the template string interpolates.                   *)

RECURSIVE SumSavings(_)
SumSavings(list) ==
    IF list = <<>> THEN 0 ELSE Head(list).potentialSavings + SumSavings(Tail(list))

RECURSIVE SumCategoryEmissions(_)
SumCategoryEmissions(list) ==
    IF list = <<>> THEN 0 ELSE Head(list).emissions + SumCategoryEmissions(Tail(list))

\* the insertion step of a sort by ascending emissions
RECURSIVE InsertCategoryAscending(_, _)
InsertCategoryAscending(sorted, x) ==
    IF sorted = <<>> THEN <<x>>
    ELSE IF Head(sorted).emissions - x.emissions <= 0
         THEN <<Head(sorted)>> \o InsertCategoryAscending(Tail(sorted), x)
         ELSE <<x>> \o sorted

\* categories.sort((a, b) => b.emissions - a.emissions), stable
RECURSIVE InsertCategory(_, _)
InsertCategory(sorted, x) ==
    IF sorted = <<>> THEN <<x>>
    ELSE IF x.emissions - Head(sorted).emissions <= 0
         THEN <<Head(sorted)>> \o InsertCategory(Tail(sorted), x)
         ELSE <<x>> \o sorted

RECURSIVE SortCategories(_)
SortCategories(list) ==
    IF list = <<>> THEN <<>>
    ELSE InsertCategory(SortCategories(SubSeq(list, 1, Len(list) - 1)), list[Len(list)])

NullCategory == [null |-> TRUE]

\* toFixed(0) of tenths of a kg
ToFixed0(t) == IF t >= 0 THEN (t + 5) \div 10 ELSE 0 - ((5 - t) \div 10)

\* the category list before .filter(c => c.hasData)
CategoryEmissions(userData) ==
    <<[name |-> "transport", emissions |-> userData.transportEmissions,
       hasData |-> userData.hasTransportData],
      [name |-> "electricity", emissions |-> userData.electricityEmissions,
       hasData |-> userData.hasElectricityData],
      [name |-> "heating", emissions |-> userData.heatingEmissions,
       hasData |-> userData.hasHeatingData],
      [name |-> "diet", emissions |-> userData.dietEmissions,
       hasData |-> userData.hasDietData],
      [name |-> "waste", emissions |-> userData.wasteEmissions,
       hasData |-> userData.hasWasteData]>>

HasData(c) == c.hasData

\* totalEmissions > 0 ? Math.round((topCategory.emissions / totalEmissions) * 100) : 0
TopPercentage(topEmissions, totalEmissions) ==
    IF totalEmissions > 0 THEN RoundDiv(topEmissions * 100, totalEmissions) ELSE 0

\* the object generateAISummary returns for a user with data in some category
SummaryObject(userData, insights, topCategory, topPercentage, totalPotentialSavings) ==
    [summary |->
        [text |-> IF Len(insights) > 0 /\ totalPotentialSavings > 0
                  THEN "could-save" ELSE "keep-tracking",
         activityCount |-> userData.activityCount,
         name |-> topCategory.name,
         emissions |-> ToFixed1(topCategory.emissions),
         percentage |-> topPercentage,
         savings |-> IF Len(insights) > 0 /\ totalPotentialSavings > 0
                     THEN ToFixed0(totalPotentialSavings) ELSE 0],
     topCategory |-> [name |-> topCategory.name,
                      emissions |-> ToFixed1(topCategory.emissions),
                      percentage |-> topPercentage],
     potentialSavings |-> ToFixed0(totalPotentialSavings),
     insightCount |-> Len(insights)]

\* generateAISummary once userData, insights and the sorted categories are known
SummaryFor(userData, insights, categories) ==
    IF ~userData.hasAnyData
    THEN [summary |-> [text |-> "welcome"], topCategory |-> NullCategory,
          potentialSavings |-> 0, insightCount |-> 0]
    ELSE IF categories = <<>>
    THEN [summary |-> [text |-> "started"], topCategory |-> NullCategory,
          potentialSavings |-> 0, insightCount |-> Len(insights)]
    ELSE SummaryObject(userData, insights, categories[1],
                       TopPercentage(categories[1].emissions,
                                     SumCategoryEmissions(categories)),
                       SumSavings(insights))

generateAISummary(userId) ==
    SummaryFor(analyzeUserData(userId), generateInsights(userId),
               SortCategories(SelectSeq(CategoryEmissions(analyzeUserData(userId)), HasData)))

\* insights-engine.js getEncouragement
IsPositive(t) == t.trend = "positive"

Encouragement(trends, positiveTrends) ==
    IF Len(positiveTrends) >= 2 THEN [text |-> "amazing"]
    ELSE IF Len(positiveTrends) = 1
    THEN [text |-> "great-job", category |-> positiveTrends[1].category]
    ELSE IF \E i \in DOMAIN trends : trends[i].trend = "neutral"
    THEN [text |-> "steady"]
    ELSE [text |-> "journey"]

getEncouragement(trends) == Encouragement(trends, SelectSeq(trends, IsPositive))

\* the object literal getInsights returns on the fallback path
FallbackPayload(ruleBasedInsights, trends, summary) ==
    [source |-> "rules",
     generatedAt |-> now,
     summary |-> summary.summary,
     topInsight |-> IF ruleBasedInsights = <<>> THEN "" ELSE ruleBasedInsights[1].id,
     insights |-> SubSeq(ruleBasedInsights, 1,
                         IF Len(ruleBasedInsights) < 4 THEN Len(ruleBasedInsights) ELSE 4),
     trends |-> trends,
     encouragement |-> getEncouragement(trends)]

RuleBasedPayload(userId) ==
    FallbackPayload(generateInsights(userId), identifyTrends(userId),
                    generateAISummary(userId))

-----------------------------------------------------------------------------
(* routes/insights.js getEnhancedStats.  Emissions are grams; toFixed(2) of *)
(* kilograms is a count of 10 g units.                                      *)

GlobalDailyAvg == 13150

\* the categories in the order GROUP BY category walks them
StatCategoryOrder ==
    <<"diet", "electricity", "energy", "food", "heating", "transport", "waste">>

\* toFixed(2) of n / d grams taken as kilograms, in units of 10 g
ToFixed2(n, d) ==
    IF n >= 0 THEN (2 * n + 10 * d) \div (20 * d)
    ELSE 0 - ((2 * (0 - n) + 10 * d) \div (20 * d))

\* one row of SELECT category, COUNT(*), SUM(emissions) ... GROUP BY category
RawGroup(acts, category) ==
    LET InGroup(a) == a.category = category
    IN  [category |-> category, count |-> Len(SelectSeq(acts, InGroup)),
         total_emissions |-> SumEmissions(SelectSeq(acts, InGroup))]

RECURSIVE RawGroups(_, _)
RawGroups(acts, k) ==
    IF k > Len(StatCategoryOrder) THEN <<>>
    ELSE (IF RawGroup(acts, StatCategoryOrder[k]).count > 0
          THEN <<RawGroup(acts, StatCategoryOrder[k])>> ELSE <<>>)
         \o RawGroups(acts, k + 1)

\* sort((a, b) => b.total_emissions - a.total_emissions), stable; also ORDER BY
\* total_emissions DESC over the groups
RECURSIVE InsertByTotal(_, _)
InsertByTotal(sorted, x) ==
    IF sorted = <<>> THEN <<x>>
    ELSE IF x.total_emissions - Head(sorted).total_emissions <= 0
         THEN <<Head(sorted)>> \o InsertByTotal(Tail(sorted), x)
         ELSE <<x>> \o sorted

RECURSIVE SortByTotal(_)
SortByTotal(list) ==
    IF list = <<>> THEN <<>>
    ELSE InsertByTotal(SortByTotal(SubSeq(list, 1, Len(list) - 1)), list[Len(list)])

\* mergedMap.has / get / set for one raw row
MergeRow(merged, c) ==
    IF \E i \in DOMAIN merged : merged[i].category = normalizeCategory(c.category)
    THEN [i \in DOMAIN merged |->
            IF merged[i].category = normalizeCategory(c.category)
            THEN [merged[i] EXCEPT !.count = @ + c.count,
                                   !.total_emissions = @ + c.total_emissions]
            ELSE merged[i]]
    ELSE Append(merged, [category |-> normalizeCategory(c.category), count |-> c.count,
                         total_emissions |-> c.total_emissions])

RECURSIVE MergeRows(_, _)
MergeRows(merged, rawBreakdown) ==
    IF rawBreakdown = <<>> THEN merged
    ELSE MergeRows(MergeRow(merged, Head(rawBreakdown)), Tail(rawBreakdown))

\* categoryBreakdown after the merge and the sort
CategoryBreakdown(acts) == SortByTotal(MergeRows(<<>>, SortByTotal(RawGroups(acts, 1))))

RECURSIVE SumTotals(_)
SumTotals(list) ==
    IF list = <<>> THEN 0 ELSE Head(list).total_emissions + SumTotals(Tail(list))

\* categoryBreakdown.map(c => ({...}))
FormatBreakdown(categoryBreakdown, totalEmissions) ==
    [i \in DOMAIN categoryBreakdown |->
        [category |-> categoryBreakdown[i].category,
         count |-> categoryBreakdown[i].count,
         emissions |-> ToFixed2(categoryBreakdown[i].total_emissions, 1),
         avgPerActivity |-> ToFixed2(categoryBreakdown[i].total_emissions,
                                     categoryBreakdown[i].count),
         percentage |-> IF totalEmissions > 0
                        THEN RoundDiv(categoryBreakdown[i].total_emissions * 100,
                                      totalEmissions)
                        ELSE 0]]

\* breakdown.reduce((best, c) => c.avgPerActivity < best.avgPerActivity ? c : best)
RECURSIVE BestCategory(_, _, _)
BestCategory(breakdown, i, best) ==
    IF i > Len(breakdown) THEN best
    ELSE BestCategory(breakdown, i + 1,
                      IF breakdown[i].avgPerActivity < best.avgPerActivity
                      THEN breakdown[i] ELSE best)

\* SUM(emissions) WHERE user_id = ? AND date >= weekAgo
StatsThisWeek(table, userId) ==
    LET Match(a) == a.user_id = userId /\ a.date >= Today - 7
    IN  SumEmissions(SelectSeq(table, Match))

\* SUM(emissions) WHERE user_id = ? AND date >= twoWeeksAgo AND date < weekAgo
StatsLastWeek(table, userId) ==
    LET Match(a) == a.user_id = userId /\ a.date >= Today - 14 /\ a.date < Today - 7
    IN  SumEmissions(SelectSeq(table, Match))

\* COUNT(DISTINCT date)
DaysActive(acts) == Cardinality({acts[i].date : i \in DOMAIN acts})

\* the object getEnhancedStats returns
StatsObject(breakdown, totalEmissions, thisWeekEmissions, lastWeekEmissions, activityCount, daysActive) ==
    [breakdown |-> breakdown,
     totals |-> [monthly |-> ToFixed2(totalEmissions, 1),
                 weekly |-> ToFixed2(thisWeekEmissions, 1),
                 dailyAverage |-> IF daysActive > 0
                                  THEN ToFixed2(totalEmissions, daysActive) ELSE 0,
                 activityCount |-> activityCount,
                 daysActive |-> daysActive],
     comparison |->
        [weeklyChange |-> IF lastWeekEmissions > 0
                          THEN RoundDiv((thisWeekEmissions - lastWeekEmissions) * 100,
                                        lastWeekEmissions)
                          ELSE 0,
         vsGlobal |-> IF daysActive > 0
                      THEN RoundDiv((totalEmissions - GlobalDailyAvg * daysActive) * 100,
                                    GlobalDailyAvg * daysActive)
                      ELSE 0 - 100,
         isAboveAverage |-> daysActive > 0 /\ totalEmissions > GlobalDailyAvg * daysActive],
     highlights |->
        [highestImpact |-> IF breakdown = <<>> THEN NullCategory
                           ELSE [category |-> breakdown[1].category,
                                 emissions |-> breakdown[1].emissions,
                                 percentage |-> breakdown[1].percentage],
         bestCategory |-> IF breakdown = <<>> THEN NullCategory
                          ELSE [category |-> BestCategory(breakdown, 1, breakdown[1]).category,
                                avgPerActivity |->
                                   BestCategory(breakdown, 1, breakdown[1]).avgPerActivity]]]

\* getEnhancedStats once the window's activities and the merged breakdown are known
StatsFor(table, userId, acts, categoryBreakdown) ==
    StatsObject(FormatBreakdown(categoryBreakdown, SumTotals(categoryBreakdown)),
                SumTotals(categoryBreakdown), StatsThisWeek(table, userId),
                StatsLastWeek(table, userId), Len(acts), DaysActive(acts))

getEnhancedStatsIn(table, userId) ==
    StatsFor(table, userId, WindowActivitiesIn(table, userId),
             CategoryBreakdown(WindowActivitiesIn(table, userId)))

getEnhancedStats(userId) == getEnhancedStatsIn(activities, userId)

-----------------------------------------------------------------------------
(* Text and JSON.  A text (the service's reply, a stored description) is a  *)
(* sequence of tokens: prose, an opening brace, a closing brace, or one     *)
(* "key": value member of an object.  Nested values stay inside val.        *)

Prose == [t |-> "prose"]
Open == [t |-> "{"]
Close == [t |-> "}"]
Member(key, val) == [t |-> "member", key |-> key, val |-> val]

\* String.prototype.match(/\{[\s\S]*\}/): from the first "{" to the last "}"
RegexMatch(text) ==
    LET opens == {i \in DOMAIN text : text[i] = Open}
        first == CHOOSE i \in opens : \A j \in opens : i <= j
        closes == {i \in DOMAIN text : text[i] = Close /\ i > first}
        last == CHOOSE i \in closes : \A j \in closes : j <= i
    IN  IF opens = {} \/ closes = {} THEN [matched |-> FALSE]
        ELSE [matched |-> TRUE, text |-> SubSeq(text, first, last)]

\* the object a run of members denotes; a repeated key keeps its last value
RECURSIVE MembersToObject(_)
MembersToObject(members) ==
    IF members = <<>> THEN <<>>
    ELSE LET m == members[Len(members)]
         IN  (m.key :> m.val) @@ MembersToObject(SubSeq(members, 1, Len(members) - 1))

\* JSON.parse: an object is "{" members "}"; anything else is a SyntaxError
JSONParse(text) ==
    IF /\ Len(text) >= 2
       /\ text[1] = Open
       /\ text[Len(text)] = Close
       /\ \A i \in 2..(Len(text) - 1) : text[i].t = "member"
    THEN [ok |-> TRUE, value |-> MembersToObject(SubSeq(text, 2, Len(text) - 1))]
    ELSE [ok |-> FALSE]

\* the keys an insight payload can carry, in the order JSON.stringify is taken to emit
PayloadKeys ==
    <<"source", "model", "generatedAt", "summary", "topInsight", "insights",
      "encouragement">>

RECURSIVE StringifyMembers(_, _)
StringifyMembers(obj, k) ==
    IF k > Len(PayloadKeys) THEN <<>>
    ELSE (IF PayloadKeys[k] \in DOMAIN obj
          THEN <<Member(PayloadKeys[k], obj[PayloadKeys[k]])>> ELSE <<>>)
         \o StringifyMembers(obj, k + 1)

\* JSON.stringify of an object
JSONStringify(obj) == <<Open>> \o StringifyMembers(obj, 1) \o <<Close>>

\* String.prototype.toLowerCase on the category names of the model
ToLowerCase(str) ==
    CASE str = "Transport" -> "transport"
      [] str = "Diet" -> "diet"
      [] OTHER -> str

-----------------------------------------------------------------------------
(* ollama.js generateCompletion and generateCarbonInsights.  A call either  *)
(* returns a value or throws: [kind |-> "return", value |-> v] or           *)
(* [kind |-> "throw", error |-> e].                                         *)

Return(v) == [kind |-> "return", value |-> v]
Throw(e) == [kind |-> "throw", error |-> e]

\* what fetch() and response.json() can deliver to generateCompletion
\*   [event |-> "timeout"]            the abort timer fired
\*   [event |-> "error"]              fetch rejected (connection error)
\*   [event |-> "status", ok |-> b]   response headers arrived
\*   [event |-> "body", ...]          response.json() settled
generateCompletion(network) ==
    CASE network.event = "timeout" -> Throw("Ollama request timed out")
      [] network.event = "error" -> Throw("fetch failed")
      [] network.event = "status" -> Throw("Ollama API error")
      [] network.event = "body" ->
            IF ~network.valid THEN Throw("SyntaxError")
            ELSE IF network.hasContent THEN Return(network.content)
            ELSE Return(<<>>)

\* seenCategories filter: keep an insight unless its lower-cased category was seen
InsightKeyCaseSensitive(insight) ==
    IF "category" \in DOMAIN insight THEN insight.category ELSE "undefined"

InsightKey(insight) ==
    IF "category" \in DOMAIN insight THEN ToLowerCase(insight.category) ELSE "undefined"

RECURSIVE DedupInsights(_, _)
DedupInsights(list, seenCategories) ==
    IF list = <<>> THEN <<>>
    ELSE LET cat == InsightKey(Head(list))
         IN  IF cat \in seenCategories
             THEN DedupInsights(Tail(list), seenCategories)
             ELSE <<Head(list)>> \o DedupInsights(Tail(list), seenCategories \cup {cat})

\* a null element makes insight.category throw a TypeError
HasNullElement(list) == \E i \in DOMAIN list : "isNull" \in DOMAIN list[i]

\* "Fallback: return raw response wrapped"
WrapRaw(response) ==
    [summary |-> [text |-> "raw", raw |-> response], topInsight |-> "",
     insights |-> <<>>, encouragement |-> [text |-> ""]]

\* the try block of generateCarbonInsights, given what generateCompletion did
generateCarbonInsightsStrict(completion) ==
    IF completion.kind = "throw" THEN completion
    ELSE LET response == completion.value
             jsonMatch == RegexMatch(response)
             parsed == JSONParse(jsonMatch.text)
         IN  IF jsonMatch.matched /\ parsed.ok
             THEN Return(parsed.value)
             ELSE Throw("No JSON object")

\* const parsed = JSON.parse(jsonMatch[0]) and the de-duplication of parsed.insights
ParsedInsights(parsed) ==
    IF ~parsed.ok THEN Throw("SyntaxError")
    ELSE IF "insights" \in DOMAIN parsed.value
         THEN IF HasNullElement(parsed.value.insights)
              THEN Throw("TypeError")
              ELSE Return([parsed.value EXCEPT
                      !.insights = DedupInsights(parsed.value.insights, {})])
         ELSE Return(parsed.value)

\* if (jsonMatch) { ... } else the raw response wrapped
MatchedInsights(response, jsonMatch) ==
    IF jsonMatch.matched THEN ParsedInsights(JSONParse(jsonMatch.text))
    ELSE Return(WrapRaw(response))

generateCarbonInsights(completion) ==
    IF completion.kind = "throw" THEN completion
    ELSE MatchedInsights(completion.value, RegexMatch(completion.value))

\* the try/catch of generateAIInsights around generateCarbonInsights;
\* null is [kind |-> "null"]
NullResult == [kind |-> "null"]

generateAIInsightsNoCatch(carbon) ==
    IF carbon.kind = "throw" THEN carbon
    ELSE Return(carbon.value @@ [source |-> "ai", model |-> "llama3.1:8b", generatedAt |-> now])

generateAIInsights(carbon) ==
    IF carbon.kind = "throw" THEN NullResult
    ELSE Return(carbon.value @@ [source |-> "ai", model |-> "llama3.1:8b", generatedAt |-> now])

-----------------------------------------------------------------------------
(* The insights table and the statements getInsights and the dismiss route  *)
(* run on it.                                                               *)

CacheHours == 6

\* INSERT INTO insights (..., 'ai_generated', 'all', 'AI Insights', ?, 10, datetime('now'))
AIRow(userId, description) ==
    [user_id |-> userId, insight_type |-> "ai_generated", category |-> "all",
     title |-> "AI Insights", description |-> description, priority |-> 10,
     is_dismissed |-> 0, created_at |-> now]

\* INSERT OR REPLACE INTO insights (...) VALUES (?, ?, 'dismissed', ?, '', 1, ?)
DismissedRow(userId, id) ==
    [user_id |-> userId, insight_type |-> id, category |-> "dismissed",
     title |-> id, description |-> <<>>, priority |-> 5,
     is_dismissed |-> 1, created_at |-> now]

\* WHERE user_id = ? AND is_dismissed = 0 AND datetime(created_at) > datetime('now', '-6 hours')
FreshRow(row, userId) ==
    /\ row.user_id = userId
    /\ row.is_dismissed = 0
    /\ row.created_at > now - CacheHours

\* ... ORDER BY priority DESC LIMIT 1: the rows the SELECT may return
CacheSelect(userId) ==
    LET rows == {row \in BagToSet(cache) : FreshRow(row, userId)}
    IN  {row \in rows : \A other \in rows : other.priority <= row.priority}

\* if (!forceRefresh)
ConsultCacheAlways(forceRefresh) == TRUE

ConsultCache(forceRefresh) == ~forceRefresh

\* if (cached && cached.description) { try { JSON.parse ... source === 'ai' } catch {} }
CachedDataNeverHits(cached) == [hit |-> FALSE]

\* cachedData.source === 'ai' on the parsed description
ParsedCacheAnySource(cachedData) ==
    IF cachedData.ok THEN [hit |-> TRUE, value |-> cachedData.value] ELSE [hit |-> FALSE]

ParsedCache(cachedData) ==
    IF /\ cachedData.ok
       /\ "source" \in DOMAIN cachedData.value
       /\ cachedData.value.source = "ai"
    THEN [hit |-> TRUE, value |-> cachedData.value]
    ELSE [hit |-> FALSE]

CachedData(cached) ==
    IF cached.description # <<>> THEN ParsedCache(JSONParse(cached.description))
    ELSE [hit |-> FALSE]

\* the table restricted to the rows in kept
KeepRows(rows, kept) == [row \in kept |-> rows[row]]

InsertRow(rows, row) == rows (+) SetToBag({row})

\* DELETE FROM insights WHERE user_id = ? AND insight_type = 'ai_generated'
DeleteAIRowsNone(rows, userId) == rows

DeleteAIRows(rows, userId) ==
    KeepRows(rows, {row \in BagToSet(rows) :
                       ~(row.user_id = userId /\ row.insight_type = "ai_generated")})

\* the try block of getInsights: DELETE the user's AI rows, then INSERT the new one
WriteCacheKeepFirst(rows, userId, payload) ==
    IF \E row \in BagToSet(rows) :
          row.user_id = userId /\ row.insight_type = "ai_generated"
    THEN rows
    ELSE InsertRow(rows, AIRow(userId, JSONStringify(payload)))

WriteCacheDeleteOnly(rows, userId, payload) ==
    IF \E row \in BagToSet(rows) :
          row.user_id = userId /\ row.insight_type = "ai_generated"
    THEN DeleteAIRows(rows, userId)
    ELSE InsertRow(rows, AIRow(userId, JSONStringify(payload)))

WriteCache(rows, userId, payload) ==
    InsertRow(DeleteAIRows(rows, userId), AIRow(userId, JSONStringify(payload)))

-----------------------------------------------------------------------------
(* Requests.  A slot runs one getInsights call at a time; every action is   *)
(* the code that runs between two awaits of that call.                      *)

NoResult == [kind |-> "none"]

NewReq(userId, forceRefresh) == [user |-> userId, force |-> forceRefresh]

\* return of the fallback object literal; asked tells whether the call had sent
\* its completion request
FallbackWritesCache(p) ==
    /\ pc' = [pc EXCEPT ![p] = "done"]
    /\ result' = [result EXCEPT ![p] =
                    [kind |-> "return", via |-> "rules", asked |-> pc[p] # "probe",
                     value |-> RuleBasedPayload(req[p].user)]]
    /\ cache' = InsertRow(cache, AIRow(req[p].user, JSONStringify(RuleBasedPayload(req[p].user))))

Fallback(p) ==
    /\ pc' = [pc EXCEPT ![p] = "done"]
    /\ result' = [result EXCEPT ![p] =
                    [kind |-> "return", via |-> "rules", asked |-> pc[p] # "probe",
                     value |-> RuleBasedPayload(req[p].user)]]
    /\ UNCHANGED cache

\* the slots whose finished call already wrote the cache of p's user
WroteBefore(p) ==
    {q \in Slots \ {p} : /\ pc[q] = "done"
                         /\ result[q].via = "ai"
                         /\ req[q].user = req[p].user}

\* the slots whose call for p's user is between its first await and its return
InFlightWith(p) ==
    {q \in Slots \ {p} : /\ pc[q] \in {"probe", "completion", "body"}
                         /\ req[q].user = req[p].user}

\* getInsights from  let aiInsights = await generateAIInsights(userId)  on
AfterAI(p, aiInsights) ==
    CASE aiInsights.kind = "return" ->
            /\ cache' = WriteCache(cache, req[p].user, aiInsights.value)
            /\ pc' = [pc EXCEPT ![p] = "done"]
            /\ result' = [result EXCEPT ![p] =
                            [kind |-> "return", via |-> "ai", after |-> WroteBefore(p),
                             during |-> InFlightWith(p), value |-> aiInsights.value]]
      [] aiInsights.kind = "null" -> Fallback(p)
      [] aiInsights.kind = "throw" ->
            /\ pc' = [pc EXCEPT ![p] = "raised"]
            /\ result' = [result EXCEPT ![p] = aiInsights]
            /\ UNCHANGED cache

\* getInsights(userId, forceRefresh) up to the first await: the cache check, then
\* generateAIInsights starts the availability probe
GetInsights(p, userId, forceRefresh) ==
    /\ pc[p] = "idle"
    /\ req' = [req EXCEPT ![p] = NewReq(userId, forceRefresh)]
    /\     \/ /\ ConsultCache(forceRefresh)
              /\ \E cached \in CacheSelect(userId) :
                    /\ CachedData(cached).hit
                    /\ pc' = [pc EXCEPT ![p] = "done"]
                    /\ result' = [result EXCEPT ![p] =
                                    [kind |-> "return", via |-> "cache",
                                     value |-> CachedData(cached).value]]
           \/ /\ \/ ~ConsultCache(forceRefresh)
                 \/ CacheSelect(userId) = {}
                 \/ \E cached \in CacheSelect(userId) : ~CachedData(cached).hit
              /\ pc' = [pc EXCEPT ![p] = "probe"]
              /\ result' = [result EXCEPT ![p] = NoResult]
    /\ UNCHANGED <<activities, profiles, cache, now, out, accounts>>

\* isOllamaAvailable: the probe's response headers arrive; return response.ok
ProbeRespondsIgnoringStatus(p, ok) ==
    /\ pc[p] = "probe"
    /\ pc' = [pc EXCEPT ![p] = "completion"]
    /\ UNCHANGED <<result, cache>>
    /\ UNCHANGED <<activities, profiles, now, req, out, accounts>>

ProbeResponds(p, ok) ==
    /\ pc[p] = "probe"
    /\ IF ok
       THEN /\ pc' = [pc EXCEPT ![p] = "completion"]
            /\ UNCHANGED <<result, cache>>
       ELSE Fallback(p)
    /\ UNCHANGED <<activities, profiles, now, req, out, accounts>>

\* isOllamaAvailable: fetch rejects (connection refused); catch returns false
ProbeFails(p) ==
    /\ pc[p] = "probe"
    /\ Fallback(p)
    /\ UNCHANGED <<activities, profiles, now, req, out, accounts>>

\* isOllamaAvailable: the 5 s timer aborts the fetch; catch returns false
ProbeTimesOut(p) ==
    /\ pc[p] = "probe"
    /\ Fallback(p)
    /\ UNCHANGED <<activities, profiles, now, req, out, accounts>>

\* generateCompletion: response headers arrive; clearTimeout; !response.ok throws
CompletionResponds(p, ok) ==
    /\ pc[p] = "completion"
    /\ IF ok
       THEN /\ pc' = [pc EXCEPT ![p] = "body"]
            /\ UNCHANGED <<result, cache>>
       ELSE AfterAI(p, generateAIInsights(generateCarbonInsights(
                generateCompletion([event |-> "status", ok |-> FALSE]))))
    /\ UNCHANGED <<activities, profiles, now, req, out, accounts>>

\* generateCompletion: fetch rejects
CompletionFails(p) ==
    /\ pc[p] = "completion"
    /\ AfterAI(p, generateAIInsights(generateCarbonInsights(
            generateCompletion([event |-> "error"]))))
    /\ UNCHANGED <<activities, profiles, now, req, out, accounts>>

\* generateCompletion: the OLLAMA_TIMEOUT timer aborts the fetch
CompletionTimesOut(p) ==
    /\ pc[p] = "completion"
    /\ AfterAI(p, generateAIInsights(generateCarbonInsights(
            generateCompletion([event |-> "timeout"]))))
    /\ UNCHANGED <<activities, profiles, now, req, out, accounts>>

\* generateCompletion: await response.json() settles; the rest of the call runs
BodyArrives(p, body) ==
    /\ pc[p] = "body"
    /\ AfterAI(p, generateAIInsights(generateCarbonInsights(generateCompletion(body))))
    /\ UNCHANGED <<activities, profiles, now, req, out, accounts>>

\* the route handler sends the response (res.json, or the 500 of its catch)
Respond(p) ==
    /\ pc[p] \in {"done", "raised"}
    /\ pc' = [pc EXCEPT ![p] = "idle"]
    /\ req' = [req EXCEPT ![p] = NewReq(0, FALSE)]
    /\ result' = [result EXCEPT ![p] = NoResult]
    /\ UNCHANGED <<activities, profiles, cache, now, out, accounts>>

\* POST /api/insights/:id/dismiss
DismissIds == {"ai_generated"}

IsDismissed(row) == row.is_dismissed = 1

Dismiss(userId, id) ==
    /\ BagCardinality(KeepRows(cache, {row \in BagToSet(cache) : IsDismissed(row)})) < MaxDismiss
    /\ cache' = InsertRow(cache, DismissedRow(userId, id))
    /\ UNCHANGED <<activities, profiles, now, pc, req, result, out, accounts>>

\* the cache lifetime passes
Tick ==
    /\ now + CacheHours <= MaxClock
    /\ now' = now + CacheHours
    /\ UNCHANGED <<activities, profiles, cache, pc, req, result, out, accounts>>

-----------------------------------------------------------------------------
(* Inputs *)

\* replies of the AI service (message.content of the chat response)
GoodMembers(summary) ==
    <<Member("summary", [text |-> summary]),
      Member("topInsight", "Take the bus"),
      Member("insights", <<[title |-> "Take the bus", category |-> "transport"],
                           [title |-> "Share rides", category |-> "Transport"],
                           [title |-> "Eat plants", category |-> "diet"]>>),
      Member("encouragement", [text |-> "keep going"])>>

ReplyJson == <<Open>> \o GoodMembers("summary A") \o <<Close>>
ReplyJsonOther == <<Open>> \o GoodMembers("summary B") \o <<Close>>
ReplyProse == <<Prose, Prose>>
ReplyBadJson == <<Open, Prose, Close>>
ReplyTaggedRules ==
    <<Open, Member("source", "rules"), Member("summary", [text |-> "summary C"]), Close>>
ReplyNullInsight ==
    <<Open, Member("summary", [text |-> "summary D"]),
      Member("insights", <<[isNull |-> TRUE]>>), Close>>

Replies ==
    {ReplyJson, ReplyProse, ReplyBadJson, ReplyTaggedRules, ReplyNullInsight}

\* what response.json() of the chat response can settle to
Bodies ==
    {[event |-> "body", valid |-> FALSE]}
    \cup {[event |-> "body", valid |-> TRUE, hasContent |-> TRUE, content |-> r] : r \in Replies}

\* n copies of one activity
Copies(n, row) == [i \in 1..n |-> row]

\* ids in insertion order
Numbered(rows) == [i \in DOMAIN rows |-> [rows[i] EXCEPT !.id = i]]

-----------------------------------------------------------------------------
(* Gamification utilities (goals.js, second half): levels, XP, badges and   *)
(* the goal progress an activity brings.  Tables are passed in and the new  *)
(* tables returned, in the order the statements run.  Goal values are in    *)
(* thousandths of the goal's unit.                                          *)

LEVEL_THRESHOLDS ==
    <<0, 200, 500, 1000, 1800, 2800, 4000, 5500, 7500, 10000, 13000, 16500, 20500,
      25000, 30000>>

\* for (let i = LEVEL_THRESHOLDS.length - 1; i >= 0; i--) if (xp >= ...) return i + 1
RECURSIVE LevelLoop(_, _)
LevelLoop(i, xp) ==
    IF i < 1 THEN 1
    ELSE IF xp >= LEVEL_THRESHOLDS[i] THEN i ELSE LevelLoop(i - 1, xp)

calculateLevel(xp) == LevelLoop(Len(LEVEL_THRESHOLDS), xp)

\* awardXP that stores the new xp and leaves the level column alone
awardXPKeepLevel(us, userId, amount) ==
    IF userId \notin DOMAIN us THEN us
    ELSE [us EXCEPT ![userId].xp = @ + amount]

\* awardXP: UPDATE users SET xp = ?, level = ? WHERE id = ?
awardXP(us, userId, amount) ==
    IF userId \notin DOMAIN us THEN us
    ELSE [us EXCEPT ![userId].xp = @ + amount,
                    ![userId].level = calculateLevel(us[userId].xp + amount)]

\* the rows database/db inserts into badges; the badge id is the position
defaultBadges ==
    <<[name |-> "First Steps", condition_type |-> "activity_count", condition_value |-> 1, xp_reward |-> 25],
      [name |-> "Week Warrior", condition_type |-> "streak", condition_value |-> 7, xp_reward |-> 100],
      [name |-> "Green Commuter", condition_type |-> "eco_trips", condition_value |-> 10, xp_reward |-> 75],
      [name |-> "Veggie Lover", condition_type |-> "veggie_days", condition_value |-> 5, xp_reward |-> 50],
      [name |-> "Carbon Champion", condition_type |-> "reduction_percent", condition_value |-> 50, xp_reward |-> 200],
      [name |-> "Planet Protector", condition_type |-> "below_average", condition_value |-> 1, xp_reward |-> 150],
      [name |-> "Eco Legend", condition_type |-> "level", condition_value |-> 10, xp_reward |-> 300],
      [name |-> "Renewable Hero", condition_type |-> "renewable_month", condition_value |-> 1, xp_reward |-> 200],
      [name |-> "Month Master", condition_type |-> "streak", condition_value |-> 30, xp_reward |-> 250],
      [name |-> "Zero Waste Hero", condition_type |-> "zero_waste_week", condition_value |-> 1, xp_reward |-> 175],
      [name |-> "Consistent Tracker", condition_type |-> "total_days", condition_value |-> 100, xp_reward |-> 500],
      [name |-> "Community Leader", condition_type |-> "leaderboard_rank", condition_value |-> 10, xp_reward |-> 150]>>

\* SELECT id FROM badges WHERE name = 'First Steps'
FirstStepsBadge == CHOOSE b \in DOMAIN defaultBadges : defaultBadges[b].name = "First Steps"

\* checkBadges: the positions of the user's rows in the activities table
RowsOfUser(acts, userId) == {k \in DOMAIN acts : acts[k].user_id = userId}

\* checkBadges: COUNT(DISTINCT date) of the rows ks
DistinctDays(acts, ks) == Cardinality({acts[k].date : k \in ks})

\* checkBadges: transport rows whose description is LIKE bike, walk, bus or train
EcoTrips(acts, userId) ==
    {k \in RowsOfUser(acts, userId) :
        /\ acts[k].category = "transport"
        /\ \E kw \in {"bike", "walk", "bus", "train"} : DescIncludes(acts[k].description, kw)}

\* checkBadges: diet rows whose description is LIKE vegetarian, vegan or plant
VeggieRows(acts, userId) ==
    {k \in RowsOfUser(acts, userId) :
        /\ acts[k].category = "diet"
        /\ \E kw \in {"vegetarian", "vegan", "plant"} : DescIncludes(acts[k].description, kw)}

\* checkBadges: the switch over badge.condition_type; user is the row read on entry
BadgeEarned(badge, user, acts, userId) ==
    CASE badge.condition_type = "activity_count" ->
            Cardinality(RowsOfUser(acts, userId)) >= badge.condition_value
      [] badge.condition_type = "streak" -> user.streak >= badge.condition_value
      [] badge.condition_type = "eco_trips" ->
            Cardinality(EcoTrips(acts, userId)) >= badge.condition_value
      [] badge.condition_type = "veggie_days" ->
            DistinctDays(acts, VeggieRows(acts, userId)) >= badge.condition_value
      [] badge.condition_type = "level" -> user.level >= badge.condition_value
      [] badge.condition_type = "total_days" ->
            DistinctDays(acts, RowsOfUser(acts, userId)) >= badge.condition_value
      [] badge.condition_type = "below_average" ->
            /\ DistinctDays(acts, RowsOfUser(acts, userId)) >= 7
            /\ SumEmissions(SelectSeq(acts, LAMBDA a : a.user_id = userId)) * 365
                  < 4800000 * DistinctDays(acts, RowsOfUser(acts, userId))
      [] OTHER -> FALSE

\* checkBadges: for (const badge of badges), from badge b on; t holds the users and
\* user_badges tables
RECURSIVE BadgeLoop(_, _, _, _, _)
BadgeLoop(t, b, user, acts, userId) ==
    IF b > Len(defaultBadges) THEN t
    ELSE IF <<userId, b>> \notin t.user_badges /\ BadgeEarned(defaultBadges[b], user, acts, userId)
         THEN BadgeLoop([users |-> awardXP(t.users, userId, defaultBadges[b].xp_reward),
                         user_badges |-> t.user_badges \cup {<<userId, b>>}],
                        b + 1, user, acts, userId)
         ELSE BadgeLoop(t, b + 1, user, acts, userId)

checkBadges(us, ub, acts, userId) ==
    IF userId \notin DOMAIN us THEN [users |-> us, user_badges |-> ub]
    ELSE BadgeLoop([users |-> us, user_badges |-> ub], 1, us[userId], acts, userId)

\* DAILY_BASELINES[getBaselineCategory(activityType)] || 5, in grams
DailyBaseline(activityType) ==
    CASE activityType = "driving" -> 4600
      [] activityType = "electricity" -> 4500
      [] activityType = "heating" -> 3000
      [] activityType = "daily_diet" -> 5500
      [] activityType = "household_waste" -> 1500
      [] OTHER -> 5000

\* CALCULATOR_MAPPINGS[activityType]
CalculatorMapping(activityType) ==
    CASE activityType = "driving" -> "reduce-transport"
      [] activityType \in {"electricity", "heating"} -> "reduce-energy"
      [] activityType = "daily_diet" -> "diet-change"
      [] activityType = "household_waste" -> "zero-waste"
      [] OTHER -> "undefined"

CalculatorEntries == {"driving", "electricity", "heating", "daily_diet", "household_waste"}

\* Math.max(n, 0)
AtLeastZero(n) == IF n < 0 THEN 0 ELSE n

\* updateGoalProgress: progressIncrement for one goal, in thousandths
ProgressIncrement(goal, user, category, activityType, value, emissions) ==
    IF activityType \in CalculatorEntries
    THEN IF goal.type = CalculatorMapping(activityType)
         THEN AtLeastZero(DailyBaseline(activityType) - emissions)
         ELSE 0
    ELSE CASE goal.type = "reduce-transport" ->
                 IF /\ category = "transport"
                    /\ activityType \in {"bike", "walk", "bus", "train", "metro", "carpool"}
                 THEN value * 210 ELSE 0
           [] goal.type = "reduce-energy" ->
                 IF /\ category \in {"electricity", "energy"}
                    /\ activityType \in {"renewable", "nuclear", "solar", "wind"}
                 THEN value * 450 ELSE 0
           [] goal.type = "diet-change" ->
                 IF category \in {"diet", "food"}
                 THEN CASE activityType = "vegan" -> 4300
                        [] activityType = "vegetarian" -> 3400
                        [] activityType = "low-meat" -> 3000
                        [] OTHER -> 0
                 ELSE 0
           [] goal.type = "zero-waste" -> IF category = "waste" THEN value * 500 ELSE 0
           [] goal.type = "streak" -> AtLeastZero(user.streak * 1000 - goal.current_value)
           [] OTHER -> 0

\* goal.xp_reward || 100
RewardOrDefault(goal) == IF goal.xp_reward = 0 THEN 100 ELSE goal.xp_reward

\* a goal row after an update that tests the target only, not the status
GoalAfterAnyStatus(goal, newValue) ==
    IF newValue >= goal.target_value
    THEN [goal EXCEPT !.current_value = newValue, !.status = "completed", !.rewards = @ + 1]
    ELSE [goal EXCEPT !.current_value = newValue]

\* a goal row after UPDATE goals SET current_value = ?, status = ?; rewards counts
\* the completion rewards the goal has been paid
GoalAfter(goal, newValue) ==
    IF newValue >= goal.target_value /\ goal.status = "active"
    THEN [goal EXCEPT !.current_value = newValue, !.status = "completed", !.rewards = @ + 1]
    ELSE [goal EXCEPT !.current_value = newValue]

\* updateGoalProgress: the body of the loop for the goal at position k that gained inc
GoalStep(t, k, userId, inc) ==
    [users |-> IF GoalAfter(t.goals[k], t.goals[k].current_value + inc).rewards
                     > t.goals[k].rewards
               THEN awardXP(t.users, userId, RewardOrDefault(t.goals[k]))
               ELSE t.users,
     goals |-> [t.goals EXCEPT ![k] = GoalAfter(@, @.current_value + inc)]]

\* updateGoalProgress: for (const goal of activeGoals), from position k on
RECURSIVE GoalLoop(_, _, _, _, _, _, _)
GoalLoop(t, k, userId, category, activityType, value, emissions) ==
    IF k > Len(t.goals) THEN t
    ELSE IF /\ t.goals[k].user_id = userId
            /\ t.goals[k].status = "active"
            /\ ProgressIncrement(t.goals[k], t.users[userId], category, activityType,
                                 value, emissions) > 0
         THEN GoalLoop(GoalStep(t, k, userId,
                                ProgressIncrement(t.goals[k], t.users[userId], category,
                                                  activityType, value, emissions)),
                       k + 1, userId, category, activityType, value, emissions)
         ELSE GoalLoop(t, k + 1, userId, category, activityType, value, emissions)

updateGoalProgress(us, gs, userId, category, activityType, value, emissions) ==
    GoalLoop([users |-> us, goals |-> gs], 1, userId, category, activityType, value, emissions)

\* the users row POST /register inserts
RegisteredUser(email, today) ==
    [email |-> email, xp |-> 0, level |-> 1, streak |-> 0, last_activity_date |-> today]

\* POST /login: the streak the handler stores, from the users row it read
LoginStreak(user, today) ==
    IF today - user.last_activity_date = 1 THEN user.streak + 1
    ELSE IF today - user.last_activity_date > 1 THEN 1
    ELSE user.streak

\* POST /api/activities: the users row after the streak update
StreakUpdate(user, today) ==
    IF user.last_activity_date # today
    THEN [user EXCEPT !.streak = LoginStreak(user, today), !.last_activity_date = today]
    ELSE user

\* the accounts tables of two users who registered on day 0 and logged the activities
\* of the history on that day
AccountsInit ==
    /\ users = [u \in Users |->
                 [RegisteredUser(u, 0) EXCEPT
                     !.xp = 10 * Cardinality(RowsOfUser(activities, u)),
                     !.level = calculateLevel(10 * Cardinality(RowsOfUser(activities, u)))]]
    /\ goals = <<>>
    /\ user_badges = {<<u, FirstStepsBadge>> : u \in Users}
    /\ sqlite_sequence = [users |-> Cardinality(Users), activities |-> Len(activities),
                          goals |-> 0]

-----------------------------------------------------------------------------
(* Spec: the getInsights orchestrator, the dismiss route and the clock *)

RequestInit ==
    /\ pc = [p \in Slots |-> "idle"]
    /\ req = [p \in Slots |-> NewReq(0, FALSE)]
    /\ result = [p \in Slots |-> NoResult]
    /\ out = [op |-> "none"]

\* the row an earlier successful getInsights call of user 2 left in the table
OtherUserRow ==
    [user_id |-> 2, insight_type |-> "ai_generated", category |-> "all",
     title |-> "AI Insights", priority |-> 10, is_dismissed |-> 0, created_at |-> 0,
     description |-> JSONStringify(
        generateCarbonInsights(Return(ReplyJsonOther)).value
        @@ [source |-> "ai", model |-> "llama3.1:8b", generatedAt |-> 0])]

\* the activity history the orchestrator runs on: user 1 logged heating, user 2 nothing
HeatingOnly == Numbered(<<NewActivity(0, 1, "heating", "heating", 20, 0)>>)

Init ==
    /\ RequestInit
    /\ cache = SetToBag({OtherUserRow})
    /\ now = 0
    /\ profiles = [u \in Users |-> DefaultProfile]
    /\ activities = HeatingOnly
    /\ AccountsInit

Next ==
    \/ \E p \in Slots, u \in RequestUsers, f \in BOOLEAN : GetInsights(p, u, f)
    \/ \E p \in Slots, ok \in BOOLEAN : ProbeResponds(p, ok)
    \/ \E p \in Slots : ProbeFails(p)
    \/ \E p \in Slots : ProbeTimesOut(p)
    \/ \E p \in Slots, ok \in BOOLEAN : CompletionResponds(p, ok)
    \/ \E p \in Slots : CompletionFails(p)
    \/ \E p \in Slots : CompletionTimesOut(p)
    \/ \E p \in Slots, body \in Bodies : BodyArrives(p, body)
    \/ \E p \in Slots : Respond(p)
    \/ \E u \in Users, id \in DismissIds : Dismiss(u, id)
    \/ Tick

Spec == Init /\ [][Next]_vars

-----------------------------------------------------------------------------
(* Claims about getInsights, checked under Spec *)

\* slot p's call returns in this step
Returns(p) == pc[p] # "done" /\ pc'[p] = "done" /\ result'[p].kind = "return"

\* the rows of one user that carry insight_type 'ai_generated'
AIEntries(rows, userId) ==
    KeepRows(rows, {row \in BagToSet(rows) :
                       row.user_id = userId /\ row.insight_type = "ai_generated"})

\* the rows of one user that the cache lookup can see as AI entries
CachedEntries(rows, userId) ==
    KeepRows(rows, {row \in BagToSet(rows) : /\ row.user_id = userId
                                              /\ row.insight_type = "ai_generated"
                                              /\ row.is_dismissed = 0})

\* the step completes the call with the rule-based payload of the caller
RulesOutcome(p) ==
    /\ Returns(p)
    /\ result'[p].value = RuleBasedPayload(req[p].user)
    /\ result'[p].value.source = "rules"

\* C1: a getInsights call without forceRefresh that finds a non-dismissed row of the
\* user, younger than 6 hours, whose description parses to an object with source 'ai',
\* returns exactly that object in the same step (no probe, no completion) and leaves
\* the table unchanged.
C1_CacheHit ==
    [][\A p \in Slots, u \in RequestUsers : \A row \in BagToSet(cache) :
          (/\ GetInsights(p, u, FALSE)
           /\ row.user_id = u
           /\ row.is_dismissed = 0
           /\ now - row.created_at < CacheHours
           /\ JSONParse(row.description).ok
           /\ "source" \in DOMAIN JSONParse(row.description).value
           /\ JSONParse(row.description).value.source = "ai")
          => /\ Returns(p)
             /\ result'[p].value = JSONParse(row.description).value
             /\ cache' = cache]_vars

\* C1 witness: a call without forceRefresh was answered from the table.
C1_Witness ==
    \E p \in Slots :
        /\ pc[p] = "done"
        /\ ~req[p].force
        /\ result[p].via = "cache"
        /\ \E row \in BagToSet(cache) :
              /\ row.user_id = req[p].user
              /\ row.description = JSONStringify(result[p].value)

\* the reply cannot be parsed, as the claim reads it: the body is not JSON, the reply
\* holds no {...} span, or JSON.parse rejects the span
CannotBeParsed(body) ==
    \/ ~body.valid
    \/ ~RegexMatch(body.content).matched
    \/ ~JSONParse(RegexMatch(body.content).text).ok

\* the reply holds a {...} span that JSON.parse rejects, or the body is not JSON
ParseRejected(body) ==
    \/ ~body.valid
    \/ /\ RegexMatch(body.content).matched
       /\ ~JSONParse(RegexMatch(body.content).text).ok

\* a step in which the probe or the completion call fails before a body arrives
TransportFailure(p) ==
    \/ ProbeFails(p)
    \/ ProbeTimesOut(p)
    \/ ProbeResponds(p, FALSE)
    \/ CompletionTimesOut(p)
    \/ CompletionFails(p)
    \/ CompletionResponds(p, FALSE)

NoJsonObject(body) == body.valid /\ ~RegexMatch(body.content).matched

C6_ForceRefreshBypassesCache ==
    [][\A p \in Slots :
          /\ (pc[p] = "idle" /\ pc'[p] # "idle" /\ req'[p].force)
             => (pc'[p] = "probe" /\ cache' = cache)
          /\ (Returns(p) /\ req[p].force)
             => \/ /\ result'[p].via = "ai"
                   /\ result'[p].value.generatedAt = now
                \/ /\ result'[p].via = "rules"
                   /\ result'[p].value = RuleBasedPayload(req[p].user)]_vars

\* C6 witness: a forced call is waiting for the probe although the table holds a fresh
\* valid AI payload of the caller.
C6_Witness ==
    \E p \in Slots :
        /\ req[p].force
        /\ pc[p] = "probe"
        /\ \E row \in CacheSelect(req[p].user) : CachedData(row).hit

C15_SourceTagNamesProducer ==
    \A p \in Slots :
        (pc[p] = "done" /\ result[p].kind = "return")
        => /\ "source" \in DOMAIN result[p].value
           /\ result[p].value.source \in {"ai", "rules"}
           /\ result[p].value.source = "ai" <=> result[p].via \in {"ai", "cache"}
           /\ result[p].value.source = "rules" <=> result[p].via = "rules"

\* a payload produced by the AI adapter is returned with source 'rules'
C15_AdapterPayloadTaggedRules ==
    \E p \in Slots :
        /\ pc[p] = "done"
        /\ result[p].kind = "return"
        /\ result[p].via = "ai"
        /\ result[p].value.source = "rules"

\* the fallback's payload is always tagged 'rules'
FallbackTaggedRules ==
    \A p \in Slots :
        (pc[p] = "done" /\ result[p].kind = "return" /\ result[p].via = "rules")
        => result[p].value.source = "rules"

\* the probe of slot p's call fails in this step: non-2xx, connection error or timeout
ProbeFailure(p) == ProbeResponds(p, FALSE) \/ ProbeFails(p) \/ ProbeTimesOut(p)

\* C17: within one getInsights call the availability probe is issued only when the
\* call starts, the completion request is sent only on the probe's success, and a
\* failed probe ends the call with the rule-based payload: no completion request is
\* sent and the probe is not retried.
C17_ProbeOnceBeforeCompletion ==
    [][\A p \in Slots :
          /\ (pc[p] # "probe" /\ pc'[p] = "probe") => pc[p] = "idle"
          /\ (pc[p] # "completion" /\ pc'[p] = "completion")
                => (pc[p] = "probe" /\ ProbeResponds(p, TRUE))
          /\ ProbeFailure(p)
                => /\ pc'[p] = "done"
                   /\ result'[p].via = "rules"
                   /\ ~result'[p].asked]_vars

\* C17 witness: a call whose probe failed has returned the rule-based payload without
\* having sent a completion request, while another call's probe succeeded and its
\* completion request is pending.
C17_Witness ==
    \E p, q \in Slots :
        /\ pc[p] = "done"
        /\ result[p].via = "rules"
        /\ ~result[p].asked
        /\ pc[q] = "completion"

\* the lookup rejects a description that is not valid JSON, without raising
InvalidJsonMisses ==
    \A description \in {ReplyProse, ReplyBadJson} :
        /\ ~JSONParse(description).ok
        /\ ~CachedData(AIRow(1, description)).hit

\* C18: when the row the cache lookup selects holds a payload that is not valid JSON
\* or whose source is not 'ai', getInsights treats it as a miss: the call raises
\* nothing, leaves the table alone and goes on to the availability probe.
C18_BadPayloadIsMiss ==
    [][/\ InvalidJsonMisses
       /\ \A p \in Slots, u \in RequestUsers :
            (/\ GetInsights(p, u, FALSE)
             /\ CacheSelect(u) # {}
             /\ \A row \in CacheSelect(u) :
                   \/ ~JSONParse(row.description).ok
                   \/ "source" \notin DOMAIN JSONParse(row.description).value
                   \/ JSONParse(row.description).value.source # "ai")
            => /\ pc'[p] = "probe"
               /\ result'[p] = NoResult
               /\ cache' = cache]_vars

\* C18 witness: a call without forceRefresh waits for the probe although it started
\* after another call had stored a fresh payload whose source is not 'ai'.
C18_Witness ==
    \E p, q \in Slots :
        /\ p # q
        /\ pc[q] = "done"
        /\ result[q].via = "ai"
        /\ result[q].value.source # "ai"
        /\ p \notin result[q].during
        /\ pc[p] = "probe"
        /\ ~req[p].force
        /\ req[p].user = req[q].user
        /\ CacheSelect(req[p].user) # {}
        /\ \A row \in CacheSelect(req[p].user) :
              JSONParse(row.description).value = result[q].value

\* the step removes a cached entry of the user
RemovesEntry(u) ==
    \E row \in BagToSet(CachedEntries(cache, u)) : row \notin BagToSet(CachedEntries(cache', u))

-----------------------------------------------------------------------------
(* SpecTimers: Spec with the timers of ollama.js firing.  setTimeout runs   *)
(* its callback unless clearTimeout came first, so a pending probe or a     *)
(* pending completion fetch is eventually aborted; nothing obliges the      *)
(* service to answer or to finish a response body.                          *)

\* what the abort of isOllamaAvailable's fetch does to the call's position:
\* the step is ProbeTimesOut(p), or the probe settling first with the same effect
ProbeTimer(p) == pc[p] = "probe" /\ pc' = [pc EXCEPT ![p] = "done"]

\* what the abort of generateCompletion's fetch does to the call's position:
\* the step is CompletionTimesOut(p), or the fetch rejecting first
CompletionTimer(p) == pc[p] = "completion" /\ pc' = [pc EXCEPT ![p] = "done"]

TimersFire ==
    \A p \in Slots : WF_pc(ProbeTimer(p)) /\ WF_pc(CompletionTimer(p))

SpecTimers == Init /\ [][Next]_vars /\ TimersFire

\* a call that waits for the probe stops waiting for it
ProbeIsBounded == \A p \in Slots : (pc[p] = "probe") ~> (pc[p] # "probe")

\* a call that waits for the completion's response headers stops waiting for them
CompletionHeadersAreBounded ==
    \A p \in Slots : (pc[p] = "completion") ~> (pc[p] # "completion")

\* C16: every network call to the AI service, up to and including receipt of the
\* response body, is bounded by a timeout, so every getInsights request that waits
\* for the service eventually returns.
C16_EveryRequestReturns ==
    \A p \in Slots :
        (pc[p] \in {"probe", "completion", "body"}) ~> (pc[p] \in {"done", "raised"})

-----------------------------------------------------------------------------
(* SpecRules: the rule engine called on bounded activity histories *)

\* rows POST /api/activities stores; dates are relative to day 0
CarShort == NewActivity(0, 1, "transport", "Drove car to work", 3, 0)
CarZero == NewActivity(0, 1, "transport", "Drove car to work", 0, 0 - 2)
BusRide == NewActivity(0, 1, "transport", "Bus ride", 10, 0 - 1)
Flight == NewActivity(0, 1, "transport", "Flight to Oslo", 500, 0 - 20)
Electricity == NewActivity(0, 1, "electricity", "electricity", 50, 0 - 3)
Energy == NewActivity(0, 1, "energy", "electricity", 400, 0 - 30)
Heating == NewActivity(0, 1, "heating", "heating", 20, 0 - 8)
Waste == NewActivity(0, 1, "waste", "household_waste", 12, 0 - 9)
OldCar == NewActivity(0, 1, "transport", "Drove car to work", 3, 0 - 31)
OtherUserCar == NewActivity(0, 2, "transport", "Drove car to work", 3, 0)

DietRows(kind) ==
    CASE kind = "none" -> <<>>
      [] kind = "diet" -> <<NewActivity(0, 1, "diet", "daily_diet", 1, 0)>>
      [] kind = "food" -> <<NewActivity(0, 1, "food", "daily_diet", 1, 0)>>
      [] kind = "negative" -> <<NewActivity(0, 1, "diet", "daily_diet", 0 - 1, 0)>>

RuleHistories ==
    {Numbered(Copies(nCar, CarShort) \o Copies(nZero, CarZero) \o Copies(nBus, BusRide)
              \o Copies(nFlight, Flight) \o Copies(nElectricity, Electricity)
              \o Copies(nEnergy, Energy) \o Copies(nHeating, Heating)
              \o DietRows(diet) \o Copies(nWaste, Waste) \o Copies(nOld, OldCar)
              \o Copies(nOther, OtherUserCar)) :
        nCar \in {0, 4, 6, MaxCarRows}, nZero \in {0, 6}, nBus \in {0, 2},
        nFlight \in {0, 1}, nElectricity \in {0, 1}, nEnergy \in {0, 1},
        nHeating \in {0, 1}, diet \in {"none", "diet", "food", "negative"},
        nWaste \in {0, 1}, nOld \in {0, 1}, nOther \in {0, 6}}

InitRules ==
    /\ RequestInit
    /\ cache = EmptyBag
    /\ now = 0
    /\ \E profile \in {DefaultProfile, NoProfile, GreenProfile} :
          profiles = [u \in Users |-> profile]
    /\ activities \in RuleHistories
    /\ AccountsInit

CallGenerateInsights(userId) ==
    /\ out' = [op |-> "generateInsights", user |-> userId, value |-> generateInsights(userId)]
    /\ UNCHANGED <<activities, profiles, cache, now, pc, req, result, accounts>>

NextRules == \E u \in Users : CallGenerateInsights(u)

SpecRules == InitRules /\ [][NextRules]_vars

-----------------------------------------------------------------------------
(* Claims about the rule engine, checked under SpecRules *)

CalledGenerateInsights == out.op = "generateInsights"

\* C8: the list generateInsights returns holds at most one insight per category.
C8_OnePerCategory ==
    CalledGenerateInsights =>
        \A i, j \in DOMAIN out.value :
            out.value[i].category = out.value[j].category => i = j

\* C8 witness: a call returned insights of three or more categories while some
\* category had more than one rule that fires.
C8_Witness ==
    /\ CalledGenerateInsights
    /\ analyzeUserData(out.user).hasAnyData
    /\ Len(out.value) >= 3
    /\ \E c \in DOMAIN INSIGHT_TEMPLATES :
          /\ categoryDataMap(c, analyzeUserData(out.user))
          /\ Cardinality({k \in DOMAIN INSIGHT_TEMPLATES[c] :
                TemplateFires(INSIGHT_TEMPLATES[c][k], analyzeUserData(out.user))}) >= 2

\* the user logged, inside the 30-day window, an activity whose category is c
\* (energy counts as electricity, food as diet)
LoggedCategory(userId, c) ==
    \E k \in DOMAIN activities :
        /\ activities[k].user_id = userId
        /\ activities[k].date >= Today - 30
        /\ normalizeCategory(activities[k].category) = c

\* C9 as claimed: every insight returned for a user with data has a category the
\* user logged an activity of inside the window.
C9_OnlyLoggedCategories ==
    (CalledGenerateInsights /\ analyzeUserData(out.user).hasAnyData) =>
        \A i \in DOMAIN out.value : LoggedCategory(out.user, out.value[i].category)

\* C9 amended: every insight returned for a user with data has a category the user
\* logged inside the window, or is an electricity insight of a user who logged heating.
C9_LoggedOrHeating ==
    (CalledGenerateInsights /\ analyzeUserData(out.user).hasAnyData) =>
        \A i \in DOMAIN out.value :
            \/ LoggedCategory(out.user, out.value[i].category)
            \/ /\ out.value[i].category = "electricity"
               /\ LoggedCategory(out.user, "heating")

\* C9 witness: a user with data got insights although some template category was
\* never logged, and one of the insights is the heating rule of the electricity group.
C9_Witness ==
    /\ CalledGenerateInsights
    /\ analyzeUserData(out.user).hasAnyData
    /\ \E c \in DOMAIN INSIGHT_TEMPLATES : ~LoggedCategory(out.user, c)
    /\ \E i \in DOMAIN out.value : out.value[i].id = "smart-thermostat"
    /\ \E i \in DOMAIN out.value : out.value[i].category # "electricity"

\* C10: in every eligible category the insight emitted is exactly the first rule, in
\* declared order, whose condition holds and whose savings is positive; no other rule
\* of the category is emitted, and none is emitted when no rule qualifies.
C10_FirstQualifyingRule ==
    (CalledGenerateInsights /\ analyzeUserData(out.user).hasAnyData) =>
        LET userData == analyzeUserData(out.user)
            emitted == {out.value[i].id : i \in DOMAIN out.value}
        IN  \A c \in DOMAIN INSIGHT_TEMPLATES :
                LET rules == INSIGHT_TEMPLATES[c]
                    qualifying == {k \in DOMAIN rules :
                                     /\ TemplateCondition(rules[k], userData)
                                     /\ TemplateSavings(rules[k], userData) > 0}
                    ofCategory == {k \in DOMAIN rules : rules[k] \in emitted}
                IN  IF categoryDataMap(c, userData) /\ qualifying # {}
                    THEN ofCategory = {CHOOSE k \in qualifying : \A m \in qualifying : k <= m}
                    ELSE ofCategory = {}

\* C10 witness: the selected rule of a category comes after a rule whose condition
\* holds but whose savings is not positive.
C10_Witness ==
    /\ CalledGenerateInsights
    /\ \E i \in DOMAIN out.value :
          \E c \in DOMAIN INSIGHT_TEMPLATES :
             \E k, m \in DOMAIN INSIGHT_TEMPLATES[c] :
                /\ INSIGHT_TEMPLATES[c][m] = out.value[i].id
                /\ k < m
                /\ TemplateCondition(INSIGHT_TEMPLATES[c][k], analyzeUserData(out.user))
                /\ TemplateSavings(INSIGHT_TEMPLATES[c][k], analyzeUserData(out.user)) <= 0

\* the position of a category in the order the rule engine visits the categories
CategoryRank(category) ==
    CHOOSE k \in DOMAIN TemplateCategories : TemplateCategories[k] = category

\* C25: the list generateInsights returns is sorted by descending priority and, among
\* insights of equal priority, by descending savings estimate.
C25_SortedByPriorityThenSavings ==
    CalledGenerateInsights =>
        \A i \in 1..(Len(out.value) - 1) :
            \/ out.value[i].priority > out.value[i + 1].priority
            \/ /\ out.value[i].priority = out.value[i + 1].priority
               /\ out.value[i].potentialSavings >= out.value[i + 1].potentialSavings

\* C25 witness: two insights of equal priority are returned with the larger savings
\* first although the rule engine produced them in the other order, next to an
\* insight of another priority.
C25_Witness ==
    /\ CalledGenerateInsights
    /\ \E i \in 1..(Len(out.value) - 1) :
          /\ out.value[i].priority = out.value[i + 1].priority
          /\ out.value[i].potentialSavings > out.value[i + 1].potentialSavings
          /\ CategoryRank(out.value[i].category) > CategoryRank(out.value[i + 1].category)
    /\ \E j \in DOMAIN out.value : out.value[j].priority # out.value[1].priority

-----------------------------------------------------------------------------
(* SpecSummary: the rule engine and the summary generator called on bounded *)
(* activity histories                                                       *)

SummaryHistories ==
    {Numbered(Copies(nCar, CarShort) \o Copies(nZero, CarZero)
              \o Copies(nElectricity, Electricity) \o Copies(nHeating, Heating)
              \o DietRows(diet) \o Copies(nWaste, Waste) \o Copies(nOld, OldCar)
              \o Copies(nOther, OtherUserCar)) :
        nCar \in {0, 6}, nZero \in {0, 6}, nElectricity \in {0, 1}, nHeating \in {0, 1},
        diet \in {"none", "diet", "negative"}, nWaste \in {0, 1}, nOld \in {0, 1},
        nOther \in {0, 6}}

InitSummary ==
    /\ RequestInit
    /\ cache = EmptyBag
    /\ now = 0
    /\ \E profile \in {DefaultProfile, NoProfile, GreenProfile} :
          profiles = [u \in Users |-> profile]
    /\ activities \in SummaryHistories
    /\ AccountsInit

CallGenerateAISummary(userId) ==
    /\ out' = [op |-> "generateAISummary", user |-> userId,
               value |-> generateAISummary(userId)]
    /\ UNCHANGED <<activities, profiles, cache, now, pc, req, result, accounts>>

NextSummary ==
    \/ \E u \in Users : CallGenerateInsights(u)
    \/ \E u \in Users : CallGenerateAISummary(u)

SpecSummary == InitSummary /\ [][NextSummary]_vars

CalledGenerateAISummary == out.op = "generateAISummary"

\* the user has no activity dated inside the 30-day window
NothingLogged(userId) ==
    \A k \in DOMAIN activities :
        activities[k].user_id = userId => activities[k].date < Today - 30

\* C11: for a user with no activity in the window, generateInsights returns exactly
\* the three onboarding insights (transport, electricity, diet; savings 0; priorities
\* strictly descending) and nothing the rules produce, and generateAISummary returns
\* the welcome message with topCategory null.
C11_Onboarding ==
    (out.op # "none" /\ NothingLogged(out.user)) =>
        /\ CalledGenerateInsights =>
              /\ Len(out.value) = 3
              /\ <<out.value[1].category, out.value[2].category, out.value[3].category>>
                    = <<"transport", "electricity", "diet">>
              /\ \A i \in 1..3 :
                    /\ out.value[i].potentialSavings = 0
                    /\ \A c \in DOMAIN INSIGHT_TEMPLATES :
                          \A k \in DOMAIN INSIGHT_TEMPLATES[c] :
                             out.value[i].id # INSIGHT_TEMPLATES[c][k]
              /\ out.value[1].priority > out.value[2].priority
              /\ out.value[2].priority > out.value[3].priority
        /\ CalledGenerateAISummary =>
              /\ out.value.summary = [text |-> "welcome"]
              /\ out.value.topCategory = NullCategory

\* C11 witness: generateAISummary was called for a user whose only activities are
\* older than the window, under a profile for which a rule's condition holds.
C11_Witness ==
    /\ CalledGenerateAISummary
    /\ NothingLogged(out.user)
    /\ \E k \in DOMAIN activities : activities[k].user_id = out.user
    /\ \E c \in DOMAIN INSIGHT_TEMPLATES : \E k \in DOMAIN INSIGHT_TEMPLATES[c] :
          TemplateCondition(INSIGHT_TEMPLATES[c][k], analyzeUserData(out.user))

\* the categories of the summary that have data, as positions of the category list
DataCategories(userId) ==
    {k \in DOMAIN CategoryEmissions(analyzeUserData(userId)) :
        CategoryEmissions(analyzeUserData(userId))[k].hasData}

\* the emissions of the k-th category of the summary, in grams
EmissionsOf(userId, k) == CategoryEmissions(analyzeUserData(userId))[k].emissions

RECURSIVE TotalOf(_, _)
TotalOf(userId, ks) ==
    IF ks = {} THEN 0
    ELSE LET k == CHOOSE x \in ks : TRUE
         IN  EmissionsOf(userId, k) + TotalOf(userId, ks \ {k})

\* Math.round(n / d) for d # 0
RoundRatio(n, d) == IF d > 0 THEN RoundDiv(n, d) ELSE RoundDiv(0 - n, 0 - d)

RECURSIVE SavingsOf(_, _)
SavingsOf(insights, ks) ==
    IF ks = {} THEN 0
    ELSE LET k == CHOOSE x \in ks : TRUE
         IN  insights[k].potentialSavings + SavingsOf(insights, ks \ {k})

\* topCategory names a category with data whose emission sum no category with data
\* exceeds, and potentialSavings is the sum of the savings of all insights of the
\* rule engine, in whole kilograms
TopAndSavings(userId) ==
    /\ \E k \in DataCategories(userId) :
          /\ out.value.topCategory.name = CategoryEmissions(analyzeUserData(userId))[k].name
          /\ \A m \in DataCategories(userId) : EmissionsOf(userId, m) <= EmissionsOf(userId, k)
          /\ out.value.topCategory.emissions = ToFixed1(EmissionsOf(userId, k))
    /\ out.value.potentialSavings =
          ToFixed0(SavingsOf(generateInsights(userId), DOMAIN generateInsights(userId)))

\* the largest emission sum of a category with data
TopEmissions(userId) ==
    CHOOSE e \in {EmissionsOf(userId, k) : k \in DataCategories(userId)} :
        \A m \in DataCategories(userId) : EmissionsOf(userId, m) <= e

\* C26 as claimed: for a user with data in some category, topCategory is a category
\* with data of maximal emission sum, its percentage is round(100 * that sum / total
\* over the categories with data) and 0 when the total is 0, and potentialSavings is
\* the sum of the savings of all insights the rule engine selected.
C26_ShareOfTotal ==
    (CalledGenerateAISummary /\ DataCategories(out.user) # {}) =>
        /\ TopAndSavings(out.user)
        /\ out.value.topCategory.percentage =
              IF TotalOf(out.user, DataCategories(out.user)) = 0 THEN 0
              ELSE RoundRatio(100 * TopEmissions(out.user),
                              TotalOf(out.user, DataCategories(out.user)))

\* C26 amended: as claimed, but the percentage is 0 whenever the total is not
\* positive, not only when it is 0.
C26_ShareOfPositiveTotal ==
    (CalledGenerateAISummary /\ DataCategories(out.user) # {}) =>
        /\ TopAndSavings(out.user)
        /\ out.value.topCategory.percentage =
              IF TotalOf(out.user, DataCategories(out.user)) <= 0 THEN 0
              ELSE RoundRatio(100 * TopEmissions(out.user),
                              TotalOf(out.user, DataCategories(out.user)))

\* C26 witness: a summary of a user with data in several categories of different
\* emission sums, with a share strictly between 0 and 100 and positive savings.
C26_Witness ==
    /\ CalledGenerateAISummary
    /\ \E k, m \in DataCategories(out.user) :
          EmissionsOf(out.user, k) < EmissionsOf(out.user, m)
    /\ out.value.topCategory.percentage \in 1..99
    /\ out.value.potentialSavings > 0

\* a summary of a user whose categories with data total less than nothing
C26_NegativeTotal ==
    /\ CalledGenerateAISummary
    /\ DataCategories(out.user) # {}
    /\ TotalOf(out.user, DataCategories(out.user)) < 0
    /\ out.value.topCategory.percentage = 0

-----------------------------------------------------------------------------
(* SpecSynonym: the three aggregations called on histories that log         *)
(* electricity and diet under either of their category names                *)

ElectricityThisWeek == NewActivity(0, 1, "electricity", "electricity", 50, 0 - 3)
ElectricityLastWeek == NewActivity(0, 1, "electricity", "electricity", 20, 0 - 10)
EnergyThisWeek == NewActivity(0, 1, "energy", "electricity", 32, 0 - 2)
EnergyLastWeek == NewActivity(0, 1, "energy", "electricity", 40, 0 - 12)
DietThisWeek == NewActivity(0, 1, "diet", "daily_diet", 2, 0 - 1)
DietLastWeek == NewActivity(0, 1, "diet", "daily_diet", 1, 0 - 9)
FoodLastWeek == NewActivity(0, 1, "food", "daily_diet", 3, 0 - 8)

SynonymHistories ==
    {Numbered(Copies(nElectricityThis, ElectricityThisWeek)
              \o Copies(nElectricityLast, ElectricityLastWeek)
              \o Copies(nEnergyThis, EnergyThisWeek)
              \o Copies(nEnergyLast, EnergyLastWeek)
              \o Copies(nDietThis, DietThisWeek)
              \o Copies(nDietLast, DietLastWeek)
              \o Copies(nFoodLast, FoodLastWeek)
              \o Copies(nHeating, Heating)) :
        nElectricityThis \in {0, 1}, nElectricityLast \in {0, 1}, nEnergyThis \in {0, 1},
        nEnergyLast \in {0, 1}, nDietThis \in {0, 1}, nDietLast \in {0, 1},
        nFoodLast \in {0, 1}, nHeating \in {0, 1}}

InitSynonym ==
    /\ RequestInit
    /\ cache = EmptyBag
    /\ now = 0
    /\ profiles = [u \in Users |-> DefaultProfile]
    /\ activities \in SynonymHistories
    /\ AccountsInit

CallAnalyzeUserData(userId) ==
    /\ out' = [op |-> "analyzeUserData", user |-> userId, value |-> analyzeUserData(userId)]
    /\ UNCHANGED <<activities, profiles, cache, now, pc, req, result, accounts>>

CallIdentifyTrends(userId) ==
    /\ out' = [op |-> "identifyTrends", user |-> userId, value |-> identifyTrends(userId)]
    /\ UNCHANGED <<activities, profiles, cache, now, pc, req, result, accounts>>

CallGetEnhancedStats(userId) ==
    /\ out' = [op |-> "getEnhancedStats", user |-> userId, value |-> getEnhancedStats(userId)]
    /\ UNCHANGED <<activities, profiles, cache, now, pc, req, result, accounts>>

NextSynonym ==
    \/ \E u \in Users : CallAnalyzeUserData(u)
    \/ \E u \in Users : CallIdentifyTrends(u)
    \/ \E u \in Users : CallGetEnhancedStats(u)

SpecSynonym == InitSynonym /\ [][NextSynonym]_vars

-----------------------------------------------------------------------------
(* Claims about category synonyms, checked under SpecSynonym *)

Synonym(category) ==
    IF category = "electricity" THEN "energy"
    ELSE IF category = "diet" THEN "food"
    ELSE category

\* the histories that differ from table in one activity's category, which is
\* 'energy' where table has 'electricity' or 'food' where table has 'diet'
Relabellings(table) ==
    {[table EXCEPT ![i].category = Synonym(table[i].category)] :
        i \in {j \in DOMAIN table : table[j].category \in {"electricity", "diet"}}}

\* the feature vector is the same for every relabelled history
SynonymKeepsFeatures ==
    out.op = "analyzeUserData" =>
        \A t \in Relabellings(activities) : analyzeUserDataIn(t, out.user) = out.value

\* the trend records are the same for every relabelled history
SynonymKeepsTrends ==
    out.op = "identifyTrends" =>
        \A t \in Relabellings(activities) : identifyTrendsIn(t, out.user) = out.value

\* the category breakdown is the same for every relabelled history
SynonymKeepsBreakdown ==
    out.op = "getEnhancedStats" =>
        \A t \in Relabellings(activities) :
            getEnhancedStatsIn(t, out.user).breakdown = out.value.breakdown

\* C12: changing one activity's category from 'electricity' to 'energy', or
\* from 'diet' to 'food', changes nothing in the feature vector of
\* analyzeUserData, the trend records of identifyTrends or the category
\* breakdown of getEnhancedStats.
C12_SynonymChangesNothing ==
    SynonymKeepsFeatures /\ SynonymKeepsTrends /\ SynonymKeepsBreakdown

-----------------------------------------------------------------------------
(* SpecActivities: the activity routes.  A request body is a record whose   *)
(* absent fields hold "undefined"; value has its own presence flag.  Rows   *)
(* are not deleted here, so ids are issued in insertion order.              *)

MaxRows == 1         \* most rows in the activities table

BodyCategories == {"transport", "heating"}
BodyDescriptions == {"Bike ride", "heating"}
BodyValues == {10, 20}
BodySubTypes == {"undefined", "bike", "car"}
BodyFuelTypes == {"undefined", "diesel"}

CreateBodies ==
    [category : BodyCategories, description : BodyDescriptions, hasValue : {TRUE},
     value : BodyValues, subType : BodySubTypes, fuelType : BodyFuelTypes]

UpdateBodies ==
    [category : BodyCategories \cup {"undefined"},
     description : BodyDescriptions \cup {"undefined"},
     hasValue : BOOLEAN, value : BodyValues,
     subType : BodySubTypes, fuelType : BodyFuelTypes]

\* a || b on request fields
OrField(a, b) == IF a = "undefined" THEN b ELSE a

\* POST /: const calcType = subType || detectActivityType(category, activityDescription)
CalcType(body) == OrField(body.subType, detectActivityType(body.category, body.description))

\* POST /: the row inserted for a body
CreatedRow(id, userId, body) ==
    [id |-> id, user_id |-> userId, category |-> body.category,
     description |-> body.description, value |-> body.value,
     emissions |-> computeEmissions(body.category, CalcType(body), body.fuelType, body.value),
     date |-> Today]

\* PUT /:id: EMISSION_FACTORS.transport[subType] && typeof ... === 'number'
TransportFactorTruthy(subType) ==
    TransportFactor(subType) # NoKey /\ TransportFactor(subType) # 0

\* PUT /:id: the switch over cat, for val
recalculateEmissions(cat, val, subType, fuelType) ==
    CASE cat = "transport" ->
            IF subType = "car"
            THEN val * OrDefault(CarFactor(fuelType), 210)
            ELSE IF TransportFactorTruthy(subType)
                 THEN val * TransportFactor(subType)
                 ELSE val * 210
      [] cat = "electricity" -> val * OrDefault(ElectricityFactor(subType), 500)
      [] OTHER -> val * 500

\* PUT /:id: let emissions = activity.emissions; if (value !== undefined || category || subType) ...
UpdatedEmissions(activity, body) ==
    IF body.hasValue \/ body.category # "undefined" \/ body.subType # "undefined"
    THEN recalculateEmissions(OrField(body.category, activity.category),
                              IF body.hasValue THEN body.value ELSE activity.value,
                              body.subType, body.fuelType)
    ELSE activity.emissions

\* PUT /:id: UPDATE activities SET category = COALESCE(?, category), ..., emissions = ?
UpdatedRow(activity, body) ==
    [activity EXCEPT !.category = OrField(body.category, @),
                     !.description = OrField(body.description, @),
                     !.value = IF body.hasValue THEN body.value ELSE @,
                     !.emissions = UpdatedEmissions(activity, body)]

\* POST /: the users, user_badges and goals tables after the streak update, awardXP,
\* checkBadges and updateGoalProgress, once the row is inserted (acts)
AfterBadges(b, gs, userId, row, calcType) ==
    [user_badges |-> b.user_badges]
    @@ updateGoalProgress(b.users, gs, userId, row.category, calcType, row.value,
                          row.emissions)

AfterActivity(us, ub, gs, acts, userId, row, calcType) ==
    AfterBadges(checkBadges(awardXP([us EXCEPT ![userId] = StreakUpdate(@, Today)],
                                    userId, 10),
                            ub, acts, userId),
                gs, userId, row, calcType)

\* POST /api/activities
CreateActivity(userId, body) ==
    /\ userId \in DOMAIN users
    /\ activities' = Append(activities,
                            CreatedRow(sqlite_sequence.activities + 1, userId, body))
    /\ sqlite_sequence' = [sqlite_sequence EXCEPT !.activities = @ + 1]
    /\ \E t \in {AfterActivity(users, user_badges, goals, activities', userId,
                               CreatedRow(sqlite_sequence.activities + 1, userId, body),
                               CalcType(body))} :
          /\ users' = t.users
          /\ user_badges' = t.user_badges
          /\ goals' = t.goals
    /\ out' = [op |-> "create", user |-> userId, status |-> 201,
               id |-> sqlite_sequence.activities + 1,
               subType |-> body.subType, fuelType |-> body.fuelType]
    /\ UNCHANGED <<profiles, cache, now, pc, req, result>>

\* SELECT * FROM activities WHERE id = ? AND user_id = ?, as positions in the table
OwnActivity(id, userId) ==
    {k \in DOMAIN activities : activities[k].id = id /\ activities[k].user_id = userId}

\* PUT /api/activities/:id
UpdateActivity(userId, id, body) ==
    /\ IF OwnActivity(id, userId) # {}
       THEN /\ activities' = [k \in DOMAIN activities |->
                                IF k \in OwnActivity(id, userId)
                                THEN UpdatedRow(activities[k], body) ELSE activities[k]]
            /\ out' = [op |-> "update", user |-> userId, status |-> 200, id |-> id,
                       subType |-> body.subType, fuelType |-> body.fuelType]
       ELSE /\ activities' = activities
            /\ out' = [op |-> "update", user |-> userId, status |-> 404, id |-> id,
                       subType |-> body.subType, fuelType |-> body.fuelType]
    /\ UNCHANGED <<profiles, cache, now, pc, req, result, accounts>>

\* DELETE /api/activities/:id
DeleteActivity(userId, id) ==
    /\ IF OwnActivity(id, userId) # {}
       THEN /\ activities' = SelectSeq(activities, LAMBDA a : a.id # id)
            /\ out' = [op |-> "delete", user |-> userId, status |-> 200, id |-> id]
       ELSE /\ activities' = activities
            /\ out' = [op |-> "delete", user |-> userId, status |-> 404, id |-> id]
    /\ UNCHANGED <<profiles, cache, now, pc, req, result, accounts>>

\* GET /api/insights, the reads behind it: getEnhancedStats and identifyTrends
ReadInsights(userId) ==
    /\ out' = [op |-> "read", user |-> userId, status |-> 200,
               value |-> [stats |-> getEnhancedStats(userId), trends |-> identifyTrends(userId)]]
    /\ UNCHANGED <<activities, profiles, cache, now, pc, req, result, accounts>>

InitActivities ==
    /\ RequestInit
    /\ cache = EmptyBag
    /\ now = 0
    /\ profiles = [u \in Users |-> DefaultProfile]
    /\ activities = <<>>
    /\ AccountsInit

NextActivities ==
    \/ /\ sqlite_sequence.activities < MaxRows
       /\ \E u \in Users, body \in CreateBodies : CreateActivity(u, body)
    \/ \E u \in Users, id \in 1..MaxRows, body \in UpdateBodies : UpdateActivity(u, id, body)
    \/ \E u \in Users : ReadInsights(u)

SpecActivities == InitActivities /\ [][NextActivities]_vars

-----------------------------------------------------------------------------
(* Claims about the activity routes, checked under SpecActivities *)

\* the last request wrote the row out.id
Wrote == out.op \in {"create", "update"} /\ out.status \in {200, 201}

\* the subtype the last write resolved for the stored row: the request's
\* subType, or else the one detected from the stored category and description
ResolvedSubType ==
    OrField(out.subType,
            detectActivityType(activities[out.id].category, activities[out.id].description))

\* a create with a zero-factor transport subtype stores 0
CreateStoresZero ==
    (/\ Wrote
     /\ out.op = "create"
     /\ activities[out.id].category = "transport"
     /\ ResolvedSubType \in {"walk", "bike"})
    => activities[out.id].emissions = 0

CreateStoresZero_Witness ==
    /\ Wrote
    /\ out.op = "create"
    /\ activities[out.id].category = "transport"
    /\ ResolvedSubType = "bike"
    /\ activities[out.id].value = 10

\* C13: whenever an activity is created or updated with category transport
\* and a subtype whose factor is exactly 0 (walk, bike), the stored
\* emissions are 0, never value times the petrol-car factor.
C13_ZeroFactorStoresZero ==
    (/\ Wrote
     /\ activities[out.id].category = "transport"
     /\ ResolvedSubType \in {"walk", "bike"})
    => activities[out.id].emissions = 0

\* an update with subType 'bike' has stored value times the petrol-car factor
C13_UpdateStoresDefault ==
    /\ Wrote
    /\ out.op = "update"
    /\ out.subType = "bike"
    /\ activities[out.id].category = "transport"
    /\ activities[out.id].emissions = activities[out.id].value * 210

\* what a create with the stored category, the resolved subtype and the
\* stored value stores
CalculatorEmissions ==
    computeEmissions(activities[out.id].category, ResolvedSubType, out.fuelType,
                     activities[out.id].value)

\* after a create the stored emissions are the calculator's
CreateStoresCalculator ==
    (Wrote /\ out.op = "create") => activities[out.id].emissions = CalculatorEmissions

\* no read changes the activities table
ReadsKeepEmissions == [][out'.op = "read" => activities' = activities]_vars

\* C14: after any create or update of an activity its stored emissions are
\* the calculator's result for the stored category, the resolved subtype and
\* the stored value.
C14_StoredIsCalculated ==
    Wrote => activities[out.id].emissions = CalculatorEmissions

\* an update of a heating row's value has stored value times 0.5
C14_UpdateStoresHalf ==
    /\ Wrote
    /\ out.op = "update"
    /\ activities[out.id].category = "heating"
    /\ activities[out.id].description = "heating"
    /\ out.subType = "undefined"
    /\ activities[out.id].emissions = activities[out.id].value * 500
    /\ CalculatorEmissions = activities[out.id].value * 2000

-----------------------------------------------------------------------------
(* SpecDedup: the de-duplication of generateCarbonInsights applied to       *)
(* bounded insight lists of a reply                                         *)

MaxInsights == 3     \* most insights in one reply

\* the insights a reply can list: with a category in either case, or without one
ReplyInsights ==
    {[title |-> title, category |-> category] :
        title \in {"Take the bus", "Eat plants"},
        category \in {"transport", "Transport", "diet"}}
    \cup {[title |-> "Take the bus"]}

ReplyInsightLists == UNION {[1..n -> ReplyInsights] : n \in 0..MaxInsights}

InitDedup ==
    /\ pc = [p \in Slots |-> "idle"]
    /\ req = [p \in Slots |-> NewReq(0, FALSE)]
    /\ result = [p \in Slots |-> NoResult]
    /\ cache = EmptyBag
    /\ now = 0
    /\ profiles = [u \in Users |-> DefaultProfile]
    /\ activities = <<>>
    /\ AccountsInit
    /\ \E list \in ReplyInsightLists : out = [op |-> "parsed", insights |-> list]

\* parsed.insights = parsed.insights.filter(...)
FilterInsights ==
    /\ out.op = "parsed"
    /\ out' = [op |-> "filtered", insights |-> out.insights,
               value |-> DedupInsights(out.insights, {})]
    /\ UNCHANGED <<activities, profiles, cache, now, pc, req, result, accounts>>

\* the same filter applied to a list it has produced
FilterAgain ==
    /\ out.op = "filtered"
    /\ out' = [op |-> "refiltered", insights |-> out.value,
               value |-> DedupInsights(out.value, {})]
    /\ UNCHANGED <<activities, profiles, cache, now, pc, req, result, accounts>>

NextDedup == FilterInsights \/ FilterAgain

SpecDedup == InitDedup /\ [][NextDedup]_vars

-----------------------------------------------------------------------------
(* Claims about the de-duplication, checked under SpecDedup *)

\* the category of an insight, compared without regard to case
CategoryOf(insight) ==
    IF "category" \in DOMAIN insight THEN ToLowerCase(insight.category) ELSE "undefined"

\* the positions of list that hold the first insight of their category
FirstOccurrences(list) ==
    {i \in DOMAIN list : \A j \in 1..(i - 1) : CategoryOf(list[j]) # CategoryOf(list[i])}

\* the k-th smallest member of a set of positions
Nth(positions, k) == CHOOSE i \in positions : Cardinality({j \in positions : j <= i}) = k

\* C20: after the de-duplication no two entries of the list have the same category,
\* compared case-insensitively; the entries kept are the first occurrences of their
\* categories, in the order of the reply; and filtering a filtered list changes
\* nothing.
C20_DedupKeepsFirstPerCategory ==
    out.op \in {"filtered", "refiltered"} =>
        /\ \A i, j \in DOMAIN out.value :
              i # j => CategoryOf(out.value[i]) # CategoryOf(out.value[j])
        /\ Len(out.value) = Cardinality(FirstOccurrences(out.insights))
        /\ \A k \in DOMAIN out.value :
              out.value[k] = out.insights[Nth(FirstOccurrences(out.insights), k)]
        /\ out.op = "refiltered" => out.value = out.insights

\* C20 witness: a reply listed two insights whose categories differ only in case
\* around an insight of another category; the filter kept the first and the other
\* category's, in that order.
C20_Witness ==
    /\ out.op = "filtered"
    /\ Len(out.insights) = 3
    /\ "category" \in DOMAIN out.insights[1]
    /\ "category" \in DOMAIN out.insights[3]
    /\ CategoryOf(out.insights[1]) = CategoryOf(out.insights[3])
    /\ out.insights[1].category # out.insights[3].category
    /\ CategoryOf(out.insights[2]) # CategoryOf(out.insights[1])
    /\ out.value = <<out.insights[1], out.insights[2]>>

-----------------------------------------------------------------------------
(* SpecExtract: generateCarbonInsights applied to replies that wrap one     *)
(* JSON object in prose                                                     *)

MaxTrailing == 2     \* most tokens of prose after the object

\* the objects a reply can carry, as their members
WrappedObjects ==
    {<<Member("summary", [text |-> summary]), Member("topInsight", topInsight)>> :
        summary \in {"summary A", "summary B"}, topInsight \in {"Take the bus", ""}}

\* explanatory prose, which may contain brace characters
ProseTexts(n) == UNION {[1..k -> {Prose, Open, Close}] : k \in 0..n}

WrappedReplies ==
    {[before |-> before, object |-> <<Open>> \o members \o <<Close>>, after |-> after] :
        before \in {<<>>, <<Prose>>}, members \in WrappedObjects,
        after \in ProseTexts(MaxTrailing)}

InitExtract ==
    /\ pc = [p \in Slots |-> "idle"]
    /\ req = [p \in Slots |-> NewReq(0, FALSE)]
    /\ result = [p \in Slots |-> NoResult]
    /\ cache = EmptyBag
    /\ now = 0
    /\ profiles = [u \in Users |-> DefaultProfile]
    /\ activities = <<>>
    /\ AccountsInit
    /\ \E reply \in WrappedReplies : out = [op |-> "reply", reply |-> reply]

\* generateCarbonInsights once generateCompletion has returned the reply's text
CallGenerateCarbonInsights ==
    /\ out.op = "reply"
    /\ out' = [op |-> "generateCarbonInsights", reply |-> out.reply,
               value |-> generateCarbonInsights(
                            Return(out.reply.before \o out.reply.object \o out.reply.after))]
    /\ UNCHANGED <<activities, profiles, cache, now, pc, req, result, accounts>>

NextExtract == CallGenerateCarbonInsights

SpecExtract == InitExtract /\ [][NextExtract]_vars

-----------------------------------------------------------------------------
(* Claims about the JSON extraction, checked under SpecExtract *)

\* the adapter returned exactly the reply's object
ReturnedTheObject ==
    /\ out.value.kind = "return"
    /\ JSONParse(out.reply.object).ok
    /\ out.value.value = JSONParse(out.reply.object).value

\* with no brace in the prose after the object, the object is returned
BraceFreeProseExtracts ==
    (/\ out.op = "generateCarbonInsights"
     /\ \A i \in DOMAIN out.reply.after : out.reply.after[i] = Prose)
    => ReturnedTheObject

\* C21: for a reply made of prose, one well-formed JSON object and more prose, which
\* may contain brace characters, the adapter returns exactly that object.
C21_ExtractsWrappedObject ==
    out.op = "generateCarbonInsights" => ReturnedTheObject

\* the prose after the object holds a closing brace and the adapter throws
C21_TrailingBraceThrows ==
    /\ out.op = "generateCarbonInsights"
    /\ out.reply.after = <<Prose, Close>>
    /\ out.value.kind = "throw"

-----------------------------------------------------------------------------
(* SpecTrends: identifyTrends called on histories with activities dated at  *)
(* the edges of its two windows and with week-over-week changes around the  *)
(* reporting and tagging thresholds                                         *)

\* the dates at and around the edges of the windows, as days from today
EdgeDates == <<1, 0, 0 - 1, 0 - 7, 0 - 8, 0 - 14, 0 - 15>>

\* one heating activity per chosen edge date; the values tell the dates apart
RECURSIVE EdgeRows(_, _)
EdgeRows(chosen, k) ==
    IF k > Len(EdgeDates) THEN <<>>
    ELSE (IF k \in chosen
          THEN <<NewActivity(0, 1, "heating", "heating", 2 ^ (k - 1), EdgeDates[k])>>
          ELSE <<>>)
         \o EdgeRows(chosen, k + 1)

\* this week's electricity use against 200 units last week: changes of -15, -10,
\* -9.5, -5, -4.5, 0, 4.5, 5, 9.5, 10 and 12 percent
ThisWeekUses == {170, 180, 181, 190, 191, 200, 209, 210, 219, 220, 224}

ElectricityRows(lastUse, thisUse) ==
    (IF lastUse > 0
     THEN <<NewActivity(0, 1, "electricity", "electricity", lastUse, 0 - 10)>> ELSE <<>>)
    \o (IF thisUse > 0
        THEN <<NewActivity(0, 1, "electricity", "electricity", thisUse, 0 - 3)>> ELSE <<>>)

\* a bike ride last week: transport logged with emissions 0
BikeLastWeek == NewActivity(0, 1, "transport", "Bike ride", 5, 0 - 10)

TrendHistories ==
    {Numbered(EdgeRows(chosen, 1) \o ElectricityRows(lastUse, thisUse)
              \o Copies(nZero, BikeLastWeek) \o Copies(nCar, CarShort) \o Copies(nWaste, Waste)) :
        chosen \in SUBSET (1..Len(EdgeDates)), lastUse \in {0, 200},
        thisUse \in ThisWeekUses \cup {0}, nZero \in {0, 1}, nCar \in {0, 1},
        nWaste \in {0, 1}}

InitTrends ==
    /\ RequestInit
    /\ cache = EmptyBag
    /\ now = 0
    /\ profiles = [u \in Users |-> DefaultProfile]
    /\ activities \in TrendHistories
    /\ AccountsInit

NextTrends == \E u \in RequestUsers : CallIdentifyTrends(u)

SpecTrends == InitTrends /\ [][NextTrends]_vars

-----------------------------------------------------------------------------
(* Claims about identifyTrends, checked under SpecTrends *)

CalledIdentifyTrends == out.op = "identifyTrends"

\* the sum of a category's emissions over the dates from first up to, not including, end
WindowSum(userId, category, first, end) ==
    LET Match(a) == /\ a.user_id = userId /\ a.category = category
                    /\ a.date >= first /\ a.date < end
    IN  SumEmissions(SelectSeq(activities, Match))

\* the record of a category in the returned list, if any
RecordsOf(category) ==
    SelectSeq(out.value, LAMBDA r : r.category = category)

\* C22: for each category identifyTrends takes as this week's sum exactly the
\* activities dated from 7 days ago up to, not including, today, and as last week's
\* sum exactly those dated from 14 days ago up to, not including, 7 days ago.
C22_WindowsAreHalfOpen ==
    CalledIdentifyTrends =>
        \A k \in DOMAIN TrendCategories :
            /\ ThisWeekTotal(out.user, TrendCategories[k])
                  = WindowSum(out.user, TrendCategories[k], Today - 7, Today)
            /\ LastWeekTotal(out.user, TrendCategories[k])
                  = WindowSum(out.user, TrendCategories[k], Today - 14, Today - 7)

\* last week's window is the claimed one
LastWeekIsHalfOpen ==
    CalledIdentifyTrends =>
        \A k \in DOMAIN TrendCategories :
            LastWeekTotal(out.user, TrendCategories[k])
               = WindowSum(out.user, TrendCategories[k], Today - 14, Today - 7)

\* an activity dated today is reported in this week's figure of a trend record
C22_TodayIsCounted ==
    /\ CalledIdentifyTrends
    /\ \E i \in DOMAIN activities :
          /\ activities[i].category = "heating"
          /\ activities[i].date = Today
    /\ \E i \in DOMAIN out.value :
          /\ out.value[i].category = "heating"
          /\ out.value[i].thisWeek
                # ToFixed1(WindowSum(out.user, "heating", Today - 7, Today))

\* the percentages a week-over-week change can round to
Percents == (0 - 100)..300

\* p is (thisWeek - lastWeek) / lastWeek * 100 rounded to the nearest integer, halves up
IsRoundedChange(p, thisWeek, lastWeek) ==
    /\ (2 * p - 1) * lastWeek <= 200 * (thisWeek - lastWeek)
    /\ 200 * (thisWeek - lastWeek) < (2 * p + 1) * lastWeek

\* the tag the thresholds give to a percentage
ClaimedTag(p) ==
    IF p <= 0 - 10 THEN "positive" ELSE IF p >= 10 THEN "negative" ELSE "neutral"

\* C23: for a category whose last-week sum is positive, with p the rounded percent
\* change, identifyTrends reports the category if and only if |p| >= 5, with
\* changePercent p and the tag 'positive' when p <= -10, 'negative' when p >= 10 and
\* 'neutral' otherwise.
C23_ReportedAndTaggedByThresholds ==
    CalledIdentifyTrends =>
        \A k \in DOMAIN TrendCategories :
            LastWeekTotal(out.user, TrendCategories[k]) > 0 =>
                \E p \in Percents :
                    /\ IsRoundedChange(p, ThisWeekTotal(out.user, TrendCategories[k]),
                                       LastWeekTotal(out.user, TrendCategories[k]))
                    /\ Len(RecordsOf(TrendCategories[k])) = (IF Abs(p) >= 5 THEN 1 ELSE 0)
                    /\ \A i \in DOMAIN RecordsOf(TrendCategories[k]) :
                          /\ RecordsOf(TrendCategories[k])[i].changePercent = p
                          /\ RecordsOf(TrendCategories[k])[i].trend = ClaimedTag(p)

\* C23 witness: electricity went from 100 kg to 85 kg and is reported with -15 and
\* 'positive'.
C23_Witness ==
    /\ CalledIdentifyTrends
    /\ LastWeekTotal(out.user, "electricity") = 100000
    /\ ThisWeekTotal(out.user, "electricity") = 85000
    /\ \E i \in DOMAIN out.value :
          /\ out.value[i].category = "electricity"
          /\ out.value[i].changePercent = 0 - 15
          /\ out.value[i].trend = "positive"

\* electricity went from 100 kg to 112 kg and is reported with 12 and 'negative';
\* from 100 kg to 95.5 kg it is not reported
ThresholdExamples ==
    CalledIdentifyTrends /\ LastWeekTotal(out.user, "electricity") = 100000 =>
        /\ ThisWeekTotal(out.user, "electricity") = 112000
              => \E i \in DOMAIN out.value :
                    /\ out.value[i].category = "electricity"
                    /\ out.value[i].changePercent = 12
                    /\ out.value[i].trend = "negative"
        /\ ThisWeekTotal(out.user, "electricity") = 95500
              => RecordsOf("electricity") = <<>>

\* C24: a category whose last-week sum is 0 has no trend record, whatever its
\* this-week sum is, and every record's percent change is a number computed from a
\* positive last-week sum.
C24_NoTrendWithoutLastWeek ==
    CalledIdentifyTrends =>
        /\ \A k \in DOMAIN TrendCategories :
              LastWeekTotal(out.user, TrendCategories[k]) = 0
                 => RecordsOf(TrendCategories[k]) = <<>>
        /\ \A i \in DOMAIN out.value :
              /\ out.value[i].changePercent \in Percents
              /\ LastWeekTotal(out.user, out.value[i].category) > 0

\* C24 witness: transport has a last-week sum of 0 with a trip logged last week, a
\* positive sum this week, and no record.
C24_Witness ==
    /\ CalledIdentifyTrends
    /\ \E i \in DOMAIN activities :
          /\ activities[i].category = "transport"
          /\ activities[i].date < Today - 7
    /\ LastWeekTotal(out.user, "transport") = 0
    /\ ThisWeekTotal(out.user, "transport") > 0
    /\ RecordsOf("transport") = <<>>

-----------------------------------------------------------------------------
(* The account and goal routes.  A goal row keeps the columns the routes    *)
(* read: id, user_id, type, target_value, current_value, xp_reward, status. *)

\* POST /register
Register(email) ==
    /\ \A u \in DOMAIN users : users[u].email # email
    /\ users' = users @@ (sqlite_sequence.users + 1 :> RegisteredUser(email, Today))
    /\ profiles' = [profiles EXCEPT ![sqlite_sequence.users + 1] = DefaultProfile]
    /\ user_badges' = user_badges \cup {<<sqlite_sequence.users + 1, FirstStepsBadge>>}
    /\ sqlite_sequence' = [sqlite_sequence EXCEPT !.users = @ + 1]
    /\ out' = [op |-> "register", user |-> sqlite_sequence.users + 1, status |-> 201]
    /\ UNCHANGED <<activities, cache, now, pc, req, result, goals>>

\* POST /login up to await bcrypt.compare: the users row is read; since is the day
\* the request arrived
LoginFind(p, userId) ==
    /\ pc[p] = "idle"
    /\ userId \in DOMAIN users
    /\ pc' = [pc EXCEPT ![p] = "compare"]
    /\ req' = [req EXCEPT ![p] = [id |-> userId, since |-> Today] @@ users[userId]]
    /\ UNCHANGED <<activities, profiles, cache, now, result, out, accounts>>

\* POST /login after the await, for a valid password: the streak is computed from the
\* row read before the await and stored with today's date
LoginUpdate(p) ==
    /\ pc[p] = "compare"
    /\ users' = [users EXCEPT ![req[p].id].streak = LoginStreak(req[p], Today),
                              ![req[p].id].last_activity_date = Today]
    /\ pc' = [pc EXCEPT ![p] = "idle"]
    /\ req' = [req EXCEPT ![p] = NewReq(0, FALSE)]
    /\ out' = [op |-> "login", user |-> req[p].id, status |-> 200]
    /\ UNCHANGED <<activities, profiles, cache, now, result, goals, user_badges,
                   sqlite_sequence>>

\* POST /login after the await, for a wrong password: 401
LoginRejected(p) ==
    /\ pc[p] = "compare"
    /\ pc' = [pc EXCEPT ![p] = "idle"]
    /\ req' = [req EXCEPT ![p] = NewReq(0, FALSE)]
    /\ out' = [op |-> "login", user |-> req[p].id, status |-> 401]
    /\ UNCHANGED <<activities, profiles, cache, now, result, accounts>>

\* POST /goals: const days = duration_days || (month ? 30 : 3months ? 90 : 7), where
\* goalDuration = duration || 'month'
GoalDays(body) ==
    IF body.duration_days # 0 THEN body.duration_days
    ELSE CASE OrField(body.duration, "month") = "month" -> 30
           [] body.duration = "3months" -> 90
           [] OTHER -> 7

\* POST /goals: xpReward
GoalXpReward(days) == IF days >= 60 THEN 250 ELSE IF days >= 30 THEN 150 ELSE 100

\* POST /goals: the row inserted; target_value || targetValue || target || 10
CreatedGoal(id, userId, body) ==
    [id |-> id, user_id |-> userId, type |-> body.type,
     target_value |-> IF body.target_value = 0 THEN 10000 ELSE body.target_value,
     current_value |-> 0, xp_reward |-> GoalXpReward(GoalDays(body)),
     status |-> "active", rewards |-> 0]

\* POST /api/goals
CreateGoal(userId, body) ==
    /\ userId \in DOMAIN users
    /\ goals' = Append(goals, CreatedGoal(sqlite_sequence.goals + 1, userId, body))
    /\ sqlite_sequence' = [sqlite_sequence EXCEPT !.goals = @ + 1]
    /\ users' = awardXP(users, userId, 15)
    /\ out' = [op |-> "createGoal", user |-> userId, status |-> 201,
               id |-> sqlite_sequence.goals + 1]
    /\ UNCHANGED <<activities, profiles, cache, now, pc, req, result, user_badges>>

\* SELECT * FROM goals WHERE id = ?, whoever owns the row
OwnGoalAnyUser(id, userId) == {k \in DOMAIN goals : goals[k].id = id}

\* SELECT * FROM goals WHERE id = ? AND user_id = ?, as positions in the table
OwnGoal(id, userId) ==
    {k \in DOMAIN goals : goals[k].id = id /\ goals[k].user_id = userId}

\* PUT /:id/progress: newValue
ProgressValue(goal, body) ==
    IF body.increment # 0 THEN goal.current_value + body.increment
    ELSE IF body.hasCurrentValue THEN body.currentValue ELSE goal.current_value

\* PUT /:id/progress: the users and user_badges tables once the goal row is known
AfterProgress(us, ub, userId, goal, newValue) ==
    IF GoalAfter(goal, newValue).rewards > goal.rewards
    THEN checkBadges(awardXP(us, userId, goal.xp_reward), ub, activities, userId)
    ELSE [users |-> us, user_badges |-> ub]

\* PUT /api/goals/:id/progress
ProgressGoal(userId, id, body) ==
    /\ userId \in DOMAIN users
    /\ IF OwnGoal(id, userId) # {}
       THEN \E k \in OwnGoal(id, userId) :
               /\ \E t \in {AfterProgress(users, user_badges, userId, goals[k],
                                          ProgressValue(goals[k], body))} :
                     /\ users' = t.users
                     /\ user_badges' = t.user_badges
               /\ goals' = [goals EXCEPT ![k] = GoalAfter(@, ProgressValue(@, body))]
               /\ out' = [op |-> "progress", user |-> userId, status |-> 200, id |-> id]
       ELSE /\ out' = [op |-> "progress", user |-> userId, status |-> 404, id |-> id]
            /\ UNCHANGED <<users, user_badges, goals>>
    /\ UNCHANGED <<activities, profiles, cache, now, pc, req, result, sqlite_sequence>>

\* PUT /:id: UPDATE goals SET target_value = COALESCE(?, target_value), ...
EditedGoal(goal, body) ==
    [goal EXCEPT !.type = OrField(body.type, @),
                 !.target_value = IF body.hasTarget THEN body.target_value ELSE @,
                 !.xp_reward = IF body.hasReward THEN body.xp_reward ELSE @]

\* PUT /api/goals/:id
EditGoal(userId, id, body) ==
    /\ userId \in DOMAIN users
    /\ IF OwnGoal(id, userId) # {}
       THEN /\ goals' = [k \in DOMAIN goals |->
                           IF goals[k].id = id THEN EditedGoal(goals[k], body) ELSE goals[k]]
            /\ out' = [op |-> "edit", user |-> userId, status |-> 200, id |-> id]
       ELSE /\ goals' = goals
            /\ out' = [op |-> "edit", user |-> userId, status |-> 404, id |-> id]
    /\ UNCHANGED <<activities, profiles, cache, now, pc, req, result, users, user_badges,
                   sqlite_sequence>>

\* PUT /api/goals/:id/abandon
AbandonGoal(userId, id) ==
    /\ userId \in DOMAIN users
    /\ IF OwnGoal(id, userId) # {}
       THEN /\ goals' = [k \in DOMAIN goals |->
                           IF goals[k].id = id
                           THEN [goals[k] EXCEPT !.status = "abandoned"] ELSE goals[k]]
            /\ out' = [op |-> "abandon", user |-> userId, status |-> 200, id |-> id]
       ELSE /\ goals' = goals
            /\ out' = [op |-> "abandon", user |-> userId, status |-> 404, id |-> id]
    /\ UNCHANGED <<activities, profiles, cache, now, pc, req, result, users, user_badges,
                   sqlite_sequence>>

\* DELETE /api/goals/:id
DeleteGoal(userId, id) ==
    /\ userId \in DOMAIN users
    /\ IF OwnGoal(id, userId) # {}
       THEN /\ goals' = SelectSeq(goals, LAMBDA g : g.id # id)
            /\ out' = [op |-> "deleteGoal", user |-> userId, status |-> 200, id |-> id]
       ELSE /\ goals' = goals
            /\ out' = [op |-> "deleteGoal", user |-> userId, status |-> 404, id |-> id]
    /\ UNCHANGED <<activities, profiles, cache, now, pc, req, result, users, user_badges,
                   sqlite_sequence>>

\* the server's clock passes midnight (UTC)
Midnight ==
    /\ now' = now + 24
    /\ UNCHANGED <<activities, profiles, cache, pc, req, result, out, accounts>>

\* an empty database, as the server creates it
EmptyDatabase ==
    /\ RequestInit
    /\ cache = EmptyBag
    /\ now = 0
    /\ profiles = [u \in Users |-> NoProfile]
    /\ activities = <<>>
    /\ users = <<>>
    /\ goals = <<>>
    /\ user_badges = {}
    /\ sqlite_sequence = [users |-> 0, activities |-> 0, goals |-> 0]

-----------------------------------------------------------------------------
(* SpecAccounts: registration, activity logging and the goal routes on an   *)
(* empty database; the first user to register sends the requests            *)

MaxGoals == 1        \* most goals ever created
MaxGoalValue == 12000  \* largest current_value a progress request may store

Emails == {"a@x", "b@x"}

\* a calculator entry that counts towards a zero-waste goal, and a bike ride
AccountBodies ==
    {[category |-> "waste", description |-> "household_waste", hasValue |-> TRUE,
      value |-> 1, subType |-> "undefined", fuelType |-> "undefined"],
     [category |-> "transport", description |-> "Bike ride", hasValue |-> TRUE,
      value |-> 10, subType |-> "undefined", fuelType |-> "undefined"]}

GoalBodies ==
    {[type |-> "zero-waste", target_value |-> 1000, duration |-> "week", duration_days |-> 0],
     [type |-> "reduce-transport", target_value |-> 0, duration |-> "3months",
      duration_days |-> 0]}

ProgressBodies ==
    {[hasCurrentValue |-> TRUE, currentValue |-> 10000, increment |-> 0],
     [hasCurrentValue |-> FALSE, currentValue |-> 0, increment |-> 6000]}

EditBodies ==
    {[type |-> "undefined", hasTarget |-> TRUE, target_value |-> 12000,
      hasReward |-> FALSE, xp_reward |-> 0],
     [type |-> "undefined", hasTarget |-> FALSE, target_value |-> 0,
      hasReward |-> TRUE, xp_reward |-> 30000]}

InitAccounts == EmptyDatabase

\* a progress request that keeps the stored value inside the bound
BoundedProgress(u, id, body) ==
    /\ \A k \in DOMAIN goals :
          goals[k].id = id => ProgressValue(goals[k], body) <= MaxGoalValue
    /\ ProgressGoal(u, id, body)

NextAccounts ==
    \/ /\ sqlite_sequence.users < Cardinality(Users)
       /\ \E email \in Emails : Register(email)
    \/ /\ sqlite_sequence.activities < MaxRows
       /\ \E u \in RequestUsers, body \in AccountBodies : CreateActivity(u, body)
    \/ /\ sqlite_sequence.goals < MaxGoals
       /\ \E u \in RequestUsers, body \in GoalBodies : CreateGoal(u, body)
    \/ \E u \in RequestUsers, id \in 1..MaxGoals, body \in ProgressBodies :
          BoundedProgress(u, id, body)
    \/ \E u \in RequestUsers, id \in 1..MaxGoals, body \in EditBodies : EditGoal(u, id, body)
    \/ \E u \in RequestUsers, id \in 1..MaxGoals : AbandonGoal(u, id)

SpecAccounts == InitAccounts /\ [][NextAccounts]_vars

AccountsTypeOK ==
    /\ DOMAIN users \subseteq Users
    /\ \A k \in DOMAIN goals : goals[k].user_id \in DOMAIN users

-----------------------------------------------------------------------------
(* Claims about levels and goal rewards, checked under SpecAccounts *)

\* level is the largest level whose XP threshold is at most xp
IsLevelOf(level, xp) ==
    /\ level \in 1..Len(LEVEL_THRESHOLDS)
    /\ LEVEL_THRESHOLDS[level] <= xp
    /\ level < Len(LEVEL_THRESHOLDS) => xp < LEVEL_THRESHOLDS[level + 1]

\* C27: after any sequence of registrations, activity creations, goal creations, goal
\* completions and badge awards, every user's stored level equals calculateLevel of
\* the stored xp, is the largest level whose XP threshold is at most the xp, and lies
\* in 1..15.
C27_LevelMatchesXp ==
    \A u \in DOMAIN users :
        /\ users[u].level = calculateLevel(users[u].xp)
        /\ IsLevelOf(users[u].level, users[u].xp)
        /\ users[u].level \in 1..15

\* the badge awarded for reaching level 10
EcoLegendBadge == CHOOSE b \in DOMAIN defaultBadges : defaultBadges[b].name = "Eco Legend"

\* C27 witness: a user who logged an activity and completed a goal holds the level
\* badge, whose XP was added after the goal's reward, and another user is registered.
C27_Witness ==
    /\ \E u \in DOMAIN users :
          /\ <<u, EcoLegendBadge>> \in user_badges
          /\ users[u].level = 15
          /\ \E k \in DOMAIN goals : goals[k].user_id = u /\ goals[k].status = "completed"
          /\ \E k \in DOMAIN activities : activities[k].user_id = u
    /\ Cardinality(DOMAIN users) = 2

\* a user stands on one of the lower levels above the first
LevelTwoOrThree ==
    \E u \in DOMAIN users : users[u].level \in {2, 3}

\* C28: a goal's completion reward is granted at most once: a step pays the reward
\* only when it moves the goal from active to completed, and no step moves a
\* completed or abandoned goal back to active.
C28_RewardOnlyOnCompletion ==
    [][\A k \in DOMAIN goals' :
          /\ goals'[k].rewards <= 1
          /\ (\A j \in DOMAIN goals : goals[j].id # goals'[k].id) => goals'[k].rewards = 0
          /\ \A j \in DOMAIN goals :
                goals[j].id = goals'[k].id =>
                   /\ goals'[k].rewards > goals[j].rewards =>
                         /\ goals[j].status = "active"
                         /\ goals'[k].status = "completed"
                         /\ users'[goals[j].user_id].xp
                               >= users[goals[j].user_id].xp + goals[j].xp_reward
                   /\ goals[j].status \in {"completed", "abandoned"} =>
                         goals'[k].status # "active"]_vars

\* C28 witness: a goal that was paid its reward once is completed although its stored
\* value is below its target, after an edit that raised the target.
C28_Witness ==
    \E k \in DOMAIN goals :
        /\ goals[k].rewards = 1
        /\ goals[k].status = "completed"
        /\ goals[k].current_value < goals[k].target_value

\* a goal was completed by logging an activity, and later abandoned
CompletedByActivityThenAbandoned ==
    \E k \in DOMAIN goals :
        /\ goals[k].rewards = 1
        /\ goals[k].status = "abandoned"
        /\ goals[k].current_value = 1000

-----------------------------------------------------------------------------
(* SpecStreak: registration, logins, activity logging and the passing of    *)
(* days.  A login is two steps, before and after await bcrypt.compare; the  *)
(* comparison is short, so at most one midnight passes while a login waits. *)

MaxDay == 3          \* the clock stops at the start of this day
MaxLogged == 2       \* most activities ever logged

StreakBodies ==
    {[category |-> "waste", description |-> "household_waste", hasValue |-> TRUE,
      value |-> 1, subType |-> "undefined", fuelType |-> "undefined"]}

\* the request slot that carries the logins
LoginSlots == {1}

InitStreak == EmptyDatabase

NextStreak ==
    \/ /\ sqlite_sequence.users < Cardinality(Users)
       /\ \E email \in Emails : Register(email)
    \/ \E p \in LoginSlots, u \in DOMAIN users : LoginFind(p, u)
    \/ \E p \in LoginSlots : LoginUpdate(p)
    \/ \E p \in LoginSlots : LoginRejected(p)
    \/ /\ sqlite_sequence.activities < MaxLogged
       /\ \E u \in DOMAIN users, body \in StreakBodies : CreateActivity(u, body)
    \/ /\ Today < MaxDay
       /\ \A p \in Slots : pc[p] = "compare" => req[p].since = Today
       /\ Midnight

SpecStreak == InitStreak /\ [][NextStreak]_vars

\* the streak rule of an event of user u today: on the first event of the day the
\* streak grows by one after an active yesterday and restarts at 1 after a gap, a
\* later event of the day keeps it, and the last active day becomes today
StreakRule(u) ==
    /\ users'[u].last_activity_date = Today
    /\ users'[u].streak =
          IF users[u].last_activity_date = Today THEN users[u].streak
          ELSE IF users[u].last_activity_date = Today - 1 THEN users[u].streak + 1
          ELSE 1

\* C29: over any sequence of logins and activity creations a user's streak changes at
\* most once per calendar day: the first such event on day D sets it to streak+1 if
\* the last recorded active day is D-1 and to 1 if it is earlier, every later event
\* on day D leaves it unchanged, and the last recorded active day becomes D.
C29_StreakOncePerDay ==
    [][/\ \A p \in Slots : LoginUpdate(p) => StreakRule(req[p].id)
       /\ \A u \in DOMAIN users, body \in StreakBodies :
             CreateActivity(u, body) => StreakRule(u)
       /\ \A u \in DOMAIN users :
             users'[u].streak # users[u].streak => users[u].last_activity_date # Today]_vars

\* the activity route alone follows the streak rule
ActivityFollowsStreakRule ==
    [][\A u \in DOMAIN users, body \in StreakBodies :
          CreateActivity(u, body) => StreakRule(u)]_vars

\* a login whose users row is still the stored one when it resumes follows the rule
UninterruptedLoginFollowsStreakRule ==
    [][\A p \in Slots :
          (/\ LoginUpdate(p)
           /\ req[p].streak = users[req[p].id].streak
           /\ req[p].last_activity_date = users[req[p].id].last_activity_date)
          => StreakRule(req[p].id)]_vars

\* a login is waiting for bcrypt.compare with a users row that an event of the
\* same user has replaced since, and midnight has passed since that event
C29_StaleLoginAfterMidnight ==
    \E p \in Slots :
        /\ pc[p] = "compare"
        /\ users[req[p].id].last_activity_date > req[p].last_activity_date
        /\ users[req[p].id].last_activity_date = Today - 1
        /\ users[req[p].id].streak >= 1

-----------------------------------------------------------------------------
(* SpecOwners: the update, delete, progress, edit and abandon routes on a   *)
(* database in which each of two users owns one activity and one goal       *)

OwnerBody == CHOOSE body \in AccountBodies : body.category = "transport"
OwnerGoal == CHOOSE body \in GoalBodies : body.type = "zero-waste"

OwnerUpdates ==
    {[category |-> "undefined", description |-> "undefined", hasValue |-> TRUE,
      value |-> 20, subType |-> "undefined", fuelType |-> "undefined"]}

OwnerProgress == {[hasCurrentValue |-> TRUE, currentValue |-> 10000, increment |-> 0]}

OwnerEdits ==
    {[type |-> "undefined", hasTarget |-> TRUE, target_value |-> 12000,
      hasReward |-> TRUE, xp_reward |-> 30000]}

\* both users registered on day 0, logged one activity each and then created a goal each
InitOwners ==
    /\ RequestInit
    /\ cache = EmptyBag
    /\ now = 0
    /\ profiles = [u \in Users |-> DefaultProfile]
    /\ activities = [u \in Users |-> CreatedRow(u, u, OwnerBody)]
    /\ users = [u \in Users |->
                  [RegisteredUser(IF u = 1 THEN "a@x" ELSE "b@x", 0) EXCEPT !.xp = 25]]
    /\ goals = [u \in Users |-> CreatedGoal(u, u, OwnerGoal)]
    /\ user_badges = {<<u, FirstStepsBadge>> : u \in Users}
    /\ sqlite_sequence = [users |-> Cardinality(Users), activities |-> Cardinality(Users),
                          goals |-> Cardinality(Users)]

NextOwners ==
    \/ \E u \in Users, id \in 1..sqlite_sequence.activities, body \in OwnerUpdates :
          UpdateActivity(u, id, body)
    \/ \E u \in Users, id \in 1..sqlite_sequence.activities : DeleteActivity(u, id)
    \/ \E u \in Users, id \in 1..sqlite_sequence.goals, body \in OwnerProgress :
          ProgressGoal(u, id, body)
    \/ \E u \in Users, id \in 1..sqlite_sequence.goals, body \in OwnerEdits :
          EditGoal(u, id, body)
    \/ \E u \in Users, id \in 1..sqlite_sequence.goals : AbandonGoal(u, id)
    \/ \E u \in Users, id \in 1..sqlite_sequence.goals : DeleteGoal(u, id)

SpecOwners == InitOwners /\ [][NextOwners]_vars

\* the request that made this step names an activity another user owns
NamesForeignActivity ==
    /\ out'.op \in {"update", "delete"}
    /\ \E k \in DOMAIN activities :
          activities[k].id = out'.id /\ activities[k].user_id # out'.user

\* the request that made this step names a goal another user owns
NamesForeignGoal ==
    /\ out'.op \in {"progress", "edit", "abandon", "deleteGoal"}
    /\ \E k \in DOMAIN goals : goals[k].id = out'.id /\ goals[k].user_id # out'.user

\* C30: no request authenticated as user A changes or deletes an activity or goal of
\* another user B: an update, delete, progress or abandon request that names a foreign
\* id answers 404 and leaves every activity, goal, XP, level and streak unchanged.
C30_NoCrossUserChange ==
    [][/\ (NamesForeignActivity \/ NamesForeignGoal) =>
             /\ out'.status = 404
             /\ UNCHANGED <<activities, goals, users, user_badges>>
       /\ \A k \in DOMAIN activities :
             activities[k].user_id # out'.user =>
                \E j \in DOMAIN activities' : activities'[j] = activities[k]
       /\ \A k \in DOMAIN goals :
             goals[k].user_id # out'.user => \E j \in DOMAIN goals' : goals'[j] = goals[k]
       /\ \A u \in DOMAIN users : u # out'.user => users'[u] = users[u]]_vars

\* C30 witness: a progress request that would complete the goal was answered 404
\* because the goal belongs to another user, and the goal is still active, while the
\* requester has completed a goal of their own.
C30_Witness ==
    /\ out.op = "progress"
    /\ out.status = 404
    /\ \E k \in DOMAIN goals :
          /\ goals[k].id = out.id
          /\ goals[k].user_id # out.user
          /\ goals[k].status = "active"
    /\ \E k \in DOMAIN goals : goals[k].user_id = out.user /\ goals[k].status = "completed"

====
